---- MODULE Spec2Model ----
(***************************************************************************)
(* Verification model of the material-package toolkit:                     *)
(*   - uberz ArchiveCache (libs/uberz/src/ArchiveCache.cpp): load, the     *)
(*     ordered matcher getMaterial, getDefaultMaterial, destroyMaterials   *)
(*     and the destructor;                                                 *)
(*   - matdbg ShaderReplacer (libs/matdbg/src/ShaderReplacer.cpp): the     *)
(*     chunk copy loop, the text index (ShaderIndex) and the SPIR-V index  *)
(*     (BlobIndex).                                                        *)
(* Strings are sequences of character codes >= 1; a C string is the        *)
(* sequence followed by an implicit terminating 0.                         *)
(***************************************************************************)
EXTENDS Integers, Sequences, FiniteSets, TLC

VARIABLES
    \* ---- ArchiveCache object and the engine it builds materials in
    mArchive,     \* NoArchive, or <<the loaded archive>>: a sequence of ArchiveSpec
    mMaterials,   \* FixedCapacityVector<Material*>: [size, slots]; 0 is nullptr
    built,        \* engine: spec index of every material built, in build order
    destroyed,    \* engine: handles passed to Engine::destroy
    freed,        \* TRUE once ~ArchiveCache has freed the archive buffer
    fault,        \* "none", or the undefined behaviour the object ran into
    op,           \* the last operation performed on the object
    reqs,         \* requirements of the last getMaterial call
    sel,          \* spec index the last getMaterial call selected, or NoMatch
    ret,          \* handle the last getMaterial/getDefaultMaterial returned
    verdicts,     \* last getMaterial call: the verdict on each spec it examined
    didBuild,     \* TRUE iff the last operation built an engine material
    mark,         \* first getMaterial call after load, remembered for replay
    \* ---- ShaderReplacer object
    mBackend,          \* backend given to the constructor
    mMaterialTag,      \* material chunk tag of the backend
    mDictionaryTag,    \* dictionary chunk tag of the backend
    mOriginalPackage,  \* the package given to the constructor
    mEditedPackage,    \* <<>> (nullptr), or <<the package a rewrite created>>
    call,              \* <<>>, or <<the last replaceShaderSource call>>
    \* ---- caller (test driver) of the matcher specifications
    drv,          \* position of the driver
    input,        \* the inputs the driver was started with
    firstSel,     \* what the driver's first ArchiveCache selected
    \* ---- WritableArchive object
    wMaterials,      \* WritableArchive::mMaterials: one Material per slot
    mMaterialIndex,  \* slot of the material being described, -1 before any
    mLineNumber,     \* line of the spec file the next addSpecLine reads
    wcall,           \* <<>>, or <<the last call on the WritableArchive>>
    wlog,            \* per addMaterial call, the spec lines given after it
    wout             \* <<>>, or <<the buffer the last serialize returned>>

cacheVars == <<mArchive, mMaterials, built, destroyed, freed, fault, op, reqs,
               sel, ret, verdicts, didBuild, mark>>
drvVars == <<drv, input, firstSel>>
replVars == <<mBackend, mMaterialTag, mDictionaryTag, mOriginalPackage,
              mEditedPackage, call>>
writerVars == <<wMaterials, mMaterialIndex, mLineNumber, wcall, wlog, wout>>
vars == <<cacheVars, drvVars, replVars, writerVars>>

-----------------------------------------------------------------------------
(* Bounds of the model *)

MaxSpecs == 2      \* specs per archive
MaxFlags == 2      \* flags per spec

-----------------------------------------------------------------------------
(* uberz data model *)

INVALID_BLENDING == "INVALID_BLENDING"
INVALID_SHADING_MODEL == "INVALID_SHADING_MODEL"

UNSUPPORTED == "UNSUPPORTED"
OPTIONAL == "OPTIONAL"
REQUIRED == "REQUIRED"
ArchiveFeature == {UNSUPPORTED, OPTIONAL, REQUIRED}

\* Flag / feature names: "a" and "ab" (one is a prefix of the other).
Names == {<<1>>, <<1, 2>>}

ArchiveFlag == [name : Names, value : ArchiveFeature]

\* The flags of one spec: WritableArchive keeps them in a hash map keyed by
\* name, so the names are distinct and the stored order is arbitrary.
FlagLists ==
    {f \in UNION {[1..n -> ArchiveFlag] : n \in 0..MaxFlags} :
        \A i, j \in 1..Len(f) : i # j => f[i].name # f[j].name}

ArchiveSpec ==
    [blendingMode : {INVALID_BLENDING, "OPAQUE"},
     shadingModel : {INVALID_SHADING_MODEL, "LIT"},
     flags : FlagLists]

ArchiveRequirements ==
    [blendingMode : {"OPAQUE", "TRANSPARENT"},
     shadingModel : {"LIT", "UNLIT"},
     features : UNION {[D -> BOOLEAN] : D \in SUBSET Names}]

ArchivesOf(S, n) == UNION {[1..k -> S] : k \in 0..n}

\* A pointer or an optional value is <<>> (none) or <<v>>.
NoArchive == <<>>
NoReqs == <<>>
NoMatch == -1
NullMaterial == 0

-----------------------------------------------------------------------------
(* C strings *)

CharAt(s, k) == IF k <= Len(s) THEN s[k] ELSE 0

\* strncmp(a, b, n) == 0: the first n characters agree, the comparison
\* stopping at the terminating 0.
StrNCmpIsZero(a, b, n) ==
    \A k \in 1..n :
        (\A j \in 1..(k - 1) : CharAt(a, j) # 0) => CharAt(a, k) = CharAt(b, k)

strIsEqual(a, b) == StrNCmpIsZero(a, b, Len(a))

-----------------------------------------------------------------------------
(* ArchiveCache::getMaterial: the suitability tests *)

\* blendingMismatch without the INVALID_BLENDING ("not set") case.
blendingMismatch_noInvalid(spec, r) == spec.blendingMode # r.blendingMode

\* First test: a set blending mode must be the requested one.
blendingMismatch(spec, r) ==
    spec.blendingMode # INVALID_BLENDING /\ spec.blendingMode # r.blendingMode

\* Second test: a set shading model must be the requested one.
shadingMismatch(spec, r) ==
    spec.shadingModel # INVALID_SHADING_MODEL /\ spec.shadingModel # r.shadingModel

\* The inner loop over the flags of a spec for one mesh requirement: the
\* first flag that strIsEqual accepts decides (found unless UNSUPPORTED).
RECURSIVE flagLoop(_, _, _)
flagLoop(flags, meshRequirement, j) ==
    IF j > Len(flags) THEN FALSE
    ELSE IF strIsEqual(meshRequirement, flags[j].name)
         THEN flags[j].value # UNSUPPORTED
         ELSE flagLoop(flags, meshRequirement, j + 1)

\* Third test: every feature the mesh requires is found.
featuresFound(spec, r) ==
    \A n \in DOMAIN r.features :
        r.features[n] => flagLoop(spec.flags, n, 1)

\* requiredFound without the test of the mapped value.
requiredFound_ignoresValue(spec, r) ==
    \A j \in 1..Len(spec.flags) :
        spec.flags[j].value = REQUIRED => spec.flags[j].name \in DOMAIN r.features

\* Fourth test: every REQUIRED flag is mapped to true by the requirements
\* (robin_map::find with the flag name as key).
requiredFound(spec, r) ==
    \A j \in 1..Len(spec.flags) :
        spec.flags[j].value = REQUIRED =>
            /\ spec.flags[j].name \in DOMAIN r.features
            /\ r.features[spec.flags[j].name]

\* What the loop body decides for one spec, named as DEBUG_SUITABILILITY
\* reports it.
specVerdict(spec, r) ==
    IF blendingMismatch(spec, r) THEN "blend mode mismatch"
    ELSE IF shadingMismatch(spec, r) THEN "material model"
    ELSE IF ~featuresFound(spec, r) THEN "mesh requirement"
    ELSE IF ~requiredFound(spec, r) THEN "required flag"
    ELSE "suitable"

\* specLoop without the return at the first suitable spec: the last one wins.
RECURSIVE specLoop_lastWins(_, _, _, _)
specLoop_lastWins(archive, r, i, vs) ==
    IF i >= Len(archive) THEN [sel |-> NoMatch, verdicts |-> vs]
    ELSE LET v == specVerdict(archive[i + 1], r)
             rest == specLoop_lastWins(archive, r, i + 1, Append(vs, v))
         IN  IF v = "suitable" /\ rest.sel = NoMatch
             THEN [sel |-> i, verdicts |-> rest.verdicts]
             ELSE rest

\* The loop over the specs, from index i (0-based): the index of the first
\* suitable spec, with the verdicts on the specs examined.
RECURSIVE specLoop(_, _, _, _)
specLoop(archive, r, i, vs) ==
    IF i >= Len(archive) THEN [sel |-> NoMatch, verdicts |-> vs]
    ELSE LET v == specVerdict(archive[i + 1], r) IN
         IF v = "suitable"
         THEN [sel |-> i, verdicts |-> Append(vs, v)]
         ELSE specLoop(archive, r, i + 1, Append(vs, v))

\* selectIndex answering from the handle cache when it holds a material.
selectIndex_cachedFirst(r) ==
    LET cached == {k \in 1..mMaterials.size : mMaterials.slots[k] # NullMaterial}
        res == specLoop(mArchive[1], r, 0, <<>>)
    IN  IF cached = {} THEN res
        ELSE [res EXCEPT !.sel = (CHOOSE k \in cached : \A m \in cached : k <= m) - 1]

\* The index getMaterial selects for the requirements r.
selectIndex(r) == specLoop(mArchive[1], r, 0, <<>>)

-----------------------------------------------------------------------------
(* ArchiveCache: the operations *)

NoMark == <<>>

Alive == ~freed /\ fault # "abort"

\* Material::Builder().package(...).build(mEngine): a fresh handle.
newHandle == Len(built) + 1

slotsOf(n) == [k \in 1..n |-> NullMaterial]

\* ArchiveCache::load: decompress, relocate, size the handle cache.
Load(archive) ==
    /\ Alive
    /\ mArchive = NoArchive
    /\ mArchive' = <<archive>>
    /\ mMaterials' = [size |-> Len(archive), slots |-> slotsOf(Len(archive))]
    /\ op' = "load"
    /\ didBuild' = FALSE
    /\ UNCHANGED <<built, destroyed, freed, fault, reqs, sel, ret, verdicts, mark>>

\* mMaterials[i] if getMaterial built a material at every selection.
materialOutcomes_alwaysBuilds(i) ==
    {[mMaterials |-> [mMaterials EXCEPT !.slots[i + 1] = Len(built) + 1],
      built |-> Append(built, i), ret |-> Len(built) + 1,
      didBuild |-> TRUE, fault |-> "none"]}

\* mMaterials[i] for the selected index i. Within the size it is the slot.
\* Past the size (the vector was cleared) the access is undefined: a build
\* with bounds assertions aborts, any other reads and writes the storage
\* the vector still holds.
materialOutcomes(i) ==
    LET slot == mMaterials.slots[i + 1]
        hit == [mMaterials |-> mMaterials, built |-> built, ret |-> slot,
                didBuild |-> FALSE, fault |-> "none"]
        miss == [mMaterials |-> [mMaterials EXCEPT !.slots[i + 1] = newHandle],
                 built |-> Append(built, i), ret |-> newHandle,
                 didBuild |-> TRUE, fault |-> "none"]
        go == IF slot = NullMaterial THEN miss ELSE hit
    IN  IF i < mMaterials.size
        THEN {go}
        ELSE {[go EXCEPT !.fault = "oob"],
              [hit EXCEPT !.fault = "abort", !.ret = NullMaterial]}

\* ArchiveCache::getMaterial.
GetMaterial(r) ==
    /\ Alive
    /\ mArchive # NoArchive
    /\ LET res == selectIndex(r) IN
       /\ sel' = res.sel
       /\ verdicts' = res.verdicts
       /\ IF res.sel = NoMatch
          THEN /\ ret' = NullMaterial
               /\ didBuild' = FALSE
               /\ UNCHANGED <<mMaterials, built, fault>>
          ELSE \E o \in materialOutcomes(res.sel) :
                  /\ mMaterials' = o.mMaterials
                  /\ built' = o.built
                  /\ ret' = o.ret
                  /\ didBuild' = o.didBuild
                  /\ fault' = IF o.fault = "none" THEN fault ELSE o.fault
       /\ mark' = IF mark = NoMark
                  THEN <<[reqs |-> r, sel |-> res.sel, others |-> FALSE]>>
                  ELSE IF r = mark[1].reqs THEN mark
                  ELSE <<[mark[1] EXCEPT !.others = TRUE]>>
    /\ op' = "getMaterial"
    /\ reqs' = <<r>>
    /\ UNCHANGED <<mArchive, destroyed, freed>>

\* ArchiveCache::getDefaultMaterial.
GetDefaultMaterial ==
    /\ Alive
    /\ mArchive # NoArchive
    /\ mMaterials.size # 0
    /\ IF mMaterials.slots[1] = NullMaterial
       THEN /\ mMaterials' = [mMaterials EXCEPT !.slots[1] = newHandle]
            /\ built' = Append(built, 0)
            /\ ret' = newHandle
            /\ didBuild' = TRUE
       ELSE /\ ret' = mMaterials.slots[1]
            /\ didBuild' = FALSE
            /\ UNCHANGED <<mMaterials, built>>
    /\ op' = "getDefaultMaterial"
    /\ mark' = IF mark = NoMark THEN mark ELSE <<[mark[1] EXCEPT !.others = TRUE]>>
    /\ UNCHANGED <<mArchive, destroyed, freed, fault, reqs, sel, verdicts>>

\* ArchiveCache::destroyMaterials: destroy every entry, clear the vector
\* (the size becomes 0, the storage is kept).
DestroyMaterials ==
    /\ Alive
    /\ destroyed' = destroyed \cup
          ({mMaterials.slots[k] : k \in 1..mMaterials.size} \ {NullMaterial})
    /\ mMaterials' = [mMaterials EXCEPT !.size = 0]
    /\ op' = "destroyMaterials"
    /\ didBuild' = FALSE
    /\ UNCHANGED <<mArchive, built, freed, fault, reqs, sel, ret, verdicts, mark>>

\* ArchiveCache::~ArchiveCache.  assert_invariant(mMaterials.size() == 0)
\* aborts a build that has assertions when the handle cache is not empty;
\* any other build frees the archive.
Destructor ==
    /\ Alive
    /\ \E asserts \in BOOLEAN :
          IF asserts /\ mMaterials.size # 0
          THEN /\ fault' = "abort"
               /\ UNCHANGED freed
          ELSE /\ freed' = TRUE
               /\ UNCHANGED fault
    /\ op' = "destructor"
    /\ didBuild' = FALSE
    /\ UNCHANGED <<mArchive, mMaterials, built, destroyed, reqs, sel, ret,
                   verdicts, mark>>

\* A freshly constructed ArchiveCache.
InitCache ==
    /\ mArchive = NoArchive
    /\ mMaterials = [size |-> 0, slots |-> <<>>]
    /\ built = <<>>
    /\ destroyed = {}
    /\ freed = FALSE
    /\ fault = "none"
    /\ op = "constructor"
    /\ reqs = NoReqs
    /\ sel = NoMatch
    /\ ret = NullMaterial
    /\ verdicts = <<>>
    /\ didBuild = FALSE
    /\ mark = NoMark

\* No ShaderReplacer has been constructed.
NoReplacer ==
    /\ mBackend = "none"
    /\ mMaterialTag = "none"
    /\ mDictionaryTag = "none"
    /\ mOriginalPackage = [chunks |-> <<>>, intact |-> FALSE]
    /\ mEditedPackage = <<>>
    /\ call = <<>>

\* No WritableArchive has been constructed.
NoWriter ==
    /\ wMaterials = <<>>
    /\ mMaterialIndex = -1
    /\ mLineNumber = 1
    /\ wcall = <<>>
    /\ wlog = <<>>
    /\ wout = <<>>

-----------------------------------------------------------------------------
(* Input domains *)

\* Every archive of at most MaxSpecs specs.
Archives == ArchivesOf(ArchiveSpec, MaxSpecs)

\* Specs with at most one flag.
OneFlagSpecs == {s \in ArchiveSpec : Len(s.flags) <= 1}

\* Specs with no shading model and at most one flag, named "a".
CacheSpecs ==
    {s \in OneFlagSpecs :
        /\ s.shadingModel = INVALID_SHADING_MODEL
        /\ \A j \in 1..Len(s.flags) : s.flags[j].name = <<1>>}
CacheArchives == ArchivesOf(CacheSpecs, MaxSpecs)

\* Requirements for a lit mesh that name at most the feature "a".
CacheRequirements ==
    {r \in ArchiveRequirements :
        r.shadingModel = "LIT" /\ DOMAIN r.features \subseteq {<<1>>}}

-----------------------------------------------------------------------------
(* Specification Spec: one ArchiveCache used freely by its caller, over    *)
(* CacheArchives and CacheRequirements.                                    *)

Init ==
    /\ InitCache
    /\ NoReplacer
    /\ NoWriter
    /\ drv = "free"
    /\ input = <<>>
    /\ firstSel = NoMatch

Next ==
    \/ \E a \in CacheArchives : Load(a) /\ UNCHANGED <<drvVars, replVars, writerVars>>
    \/ \E r \in CacheRequirements : GetMaterial(r) /\ UNCHANGED <<drvVars, replVars, writerVars>>
    \/ GetDefaultMaterial /\ UNCHANGED <<drvVars, replVars, writerVars>>
    \/ DestroyMaterials /\ UNCHANGED <<drvVars, replVars, writerVars>>
    \/ Destructor /\ UNCHANGED <<drvVars, replVars, writerVars>>

Spec == Init /\ [][Next]_vars

-----------------------------------------------------------------------------
(* Specification SpecMatch: a caller that loads one archive and asks for   *)
(* one material, over every archive and every requirements value.          *)

InitMatch ==
    /\ InitCache
    /\ NoReplacer
    /\ NoWriter
    /\ drv = "start"
    /\ input \in {<<[archive |-> a, extension |-> <<>>, reqs |-> r]>> :
                     a \in Archives, r \in ArchiveRequirements}
    /\ firstSel = NoMatch

MatchLoad ==
    /\ drv = "start"
    /\ Load(input[1].archive)
    /\ drv' = "loaded"
    /\ UNCHANGED <<input, firstSel, replVars, writerVars>>

MatchGet ==
    /\ drv = "loaded"
    /\ GetMaterial(input[1].reqs)
    /\ drv' = "done"
    /\ UNCHANGED <<input, firstSel, replVars, writerVars>>

NextMatch == MatchLoad \/ MatchGet

SpecMatch == InitMatch /\ [][NextMatch]_vars

-----------------------------------------------------------------------------
(* Specification SpecPrefix: a caller that asks for the same material from *)
(* an archive and then, with a second ArchiveCache, from the archive with  *)
(* further specs appended.                                                 *)

\* A new ArchiveCache on the same engine.
Construct ==
    /\ freed
    /\ mArchive' = NoArchive
    /\ mMaterials' = [size |-> 0, slots |-> <<>>]
    /\ freed' = FALSE
    /\ fault' = "none"
    /\ op' = "constructor"
    /\ reqs' = NoReqs
    /\ sel' = NoMatch
    /\ ret' = NullMaterial
    /\ verdicts' = <<>>
    /\ didBuild' = FALSE
    /\ mark' = NoMark
    /\ UNCHANGED <<built, destroyed>>

InitPrefix ==
    /\ InitCache
    /\ NoReplacer
    /\ NoWriter
    /\ drv = "start"
    /\ input \in {<<[archive |-> a, extension |-> e, reqs |-> r]>> :
                     a \in ArchivesOf(OneFlagSpecs, MaxSpecs - 1),
                     e \in ArchivesOf(OneFlagSpecs, 1) \ {<<>>},
                     r \in ArchiveRequirements}
    /\ firstSel = NoMatch

PrefixLoad ==
    /\ drv = "start"
    /\ Load(input[1].archive)
    /\ drv' = "loaded"
    /\ UNCHANGED <<input, firstSel, replVars, writerVars>>

PrefixGet ==
    /\ drv = "loaded"
    /\ GetMaterial(input[1].reqs)
    /\ firstSel' = sel'
    /\ drv' = "selected"
    /\ UNCHANGED <<input, replVars, writerVars>>

PrefixDestroy ==
    /\ drv = "selected"
    /\ DestroyMaterials
    /\ drv' = "destroyed"
    /\ UNCHANGED <<input, firstSel, replVars, writerVars>>

PrefixDestructor ==
    /\ drv = "destroyed"
    /\ Destructor
    /\ drv' = "gone"
    /\ UNCHANGED <<input, firstSel, replVars, writerVars>>

PrefixConstruct ==
    /\ drv = "gone"
    /\ Construct
    /\ drv' = "second"
    /\ UNCHANGED <<input, firstSel, replVars, writerVars>>

PrefixLoadExtended ==
    /\ drv = "second"
    /\ Load(input[1].archive \o input[1].extension)
    /\ drv' = "loaded again"
    /\ UNCHANGED <<input, firstSel, replVars, writerVars>>

PrefixGetExtended ==
    /\ drv = "loaded again"
    /\ GetMaterial(input[1].reqs)
    /\ drv' = "done"
    /\ UNCHANGED <<input, firstSel, replVars, writerVars>>

NextPrefix ==
    \/ PrefixLoad
    \/ PrefixGet
    \/ PrefixDestroy
    \/ PrefixDestructor
    \/ PrefixConstruct
    \/ PrefixLoadExtended
    \/ PrefixGetExtended

SpecPrefix == InitPrefix /\ [][NextPrefix]_vars

-----------------------------------------------------------------------------
(* matdbg ShaderReplacer: material packages                                *)

\* Shader-targeting backends the constructor distinguishes.
Backends == {"OPENGL", "METAL", "VULKAN"}

\* ShaderReplacer::ShaderReplacer, the switch on the backend.
materialTagOf(backend) ==
    CASE backend = "OPENGL" -> "MaterialGlsl"
      [] backend = "METAL"  -> "MaterialMetal"
      [] backend = "VULKAN" -> "MaterialSpirv"

dictionaryTagOf(backend) ==
    CASE backend = "OPENGL" -> "DictionaryText"
      [] backend = "METAL"  -> "DictionaryText"
      [] backend = "VULKAN" -> "DictionarySpirv"

\* The line terminator of shader text ('x' is 120, 'y' is 121).
NewLine == 10

\* The key of a shader record: (model, variant, stage).
ShaderKeys ==
    {[model |-> 1, variant |-> 0, stage |-> 0],
     [model |-> 1, variant |-> 0, stage |-> 1],
     [model |-> 1, variant |-> 1, stage |-> 0]}

keyOf(record) ==
    [model |-> record.model, variant |-> record.variant, stage |-> record.stage]

\* A package is the sequence of its chunks, each a tag and a payload (the
\* size is the length of the payload).  parse() fails on a package whose
\* last chunk declares a size that runs past the end of the buffer.
Chunk(tag, payload) == [tag |-> tag, payload |-> payload]
Package(chunks, intact) == [chunks |-> chunks, intact |-> intact]

\* The state keeps a package with each text dictionary written as its runs
\* of equal consecutive lines, <<[line, count], ...>>: runsOf and linesOfRuns are
\* inverse to each other, and every operator below works on the lines.
runsOf(lines) ==
    LET n == Len(lines)
        starts == {i \in 1..n : IF i = 1 THEN TRUE ELSE lines[i] # lines[i - 1]}
        nth(k) == CHOOSE b \in starts : Cardinality({c \in starts : c < b}) = k - 1
        last(k) == IF k = Cardinality(starts) THEN n ELSE nth(k + 1) - 1
    IN  [k \in 1..Cardinality(starts) |->
            [line |-> lines[nth(k)], count |-> last(k) - nth(k) + 1]] \o <<>>

RECURSIVE linesUpTo(_, _)
linesUpTo(runs, k) ==
    IF k = 0 THEN <<>>
    ELSE linesUpTo(runs, k - 1) \o ([i \in 1..runs[k].count |-> runs[k].line] \o <<>>)

linesOfRuns(runs) == linesUpTo(runs, Len(runs))

packed(package) ==
    [package EXCEPT !.chunks =
        [k \in 1..Len(package.chunks) |->
            IF package.chunks[k].tag = "DictionaryText"
            THEN Chunk("DictionaryText", runsOf(package.chunks[k].payload))
            ELSE package.chunks[k]] \o <<>>]

unpacked(package) ==
    [package EXCEPT !.chunks =
        [k \in 1..Len(package.chunks) |->
            IF package.chunks[k].tag = "DictionaryText"
            THEN Chunk("DictionaryText", linesOfRuns(package.chunks[k].payload))
            ELSE package.chunks[k]] \o <<>>]

\* ChunkContainer::parse and ChunkContainer::hasChunk.
parse(package) == package.intact
hasChunk(package, tag) == \E k \in 1..Len(package.chunks) : package.chunks[k].tag = tag

\* ChunkContainer::getChunkStart: the payload of the chunk with that tag.
getChunk(package, tag) ==
    package.chunks[CHOOSE k \in 1..Len(package.chunks) : package.chunks[k].tag = tag].payload

\* Sizes of the fields of a text material chunk, in bytes.
RecordCountSize == 8
EntrySize == 7
TailHeaderSize == 8
IndexSize == 2

RECURSIVE tailsSize(_, _)
tailsSize(tails, n) ==
    IF n = 0 THEN 0
    ELSE tailsSize(tails, n - 1) + TailHeaderSize + IndexSize * Len(tails[n].lineIndices)

\* Where the k-th tail (string length, line count, line indices) of a text
\* material payload starts, counted from the start of the payload.
tailStart(payload, k) ==
    RecordCountSize + EntrySize * Len(payload.entries) + tailsSize(payload.tails, k - 1)

\* stream.seekg(record.offset) followed by the reads of the tail.
tailAt(payload, offset) ==
    payload.tails[CHOOSE k \in 1..Len(payload.tails) : tailStart(payload, k) = offset]

-----------------------------------------------------------------------------
(* The copy loop of replaceShaderSource and replaceSpirv                   *)

\* One pass of `while (sstream)`: at position pos the reads fill type, size
\* and content from the next chunk; past the last chunk the reads fail and
\* leave type, size and content as the previous pass set them, and the
\* stream goes bad, which ends the loop after this pass.
RECURSIVE cloneLoop(_, _, _, _, _, _)
cloneLoop(chunks, pos, cur, dictTag, matTag, tstream) ==
    LET reads == pos <= Len(chunks)
        now == IF reads THEN chunks[pos] ELSE cur
        out == IF now.tag = dictTag \/ now.tag = matTag
               THEN tstream
               ELSE Append(tstream, now)
    IN  IF reads THEN cloneLoop(chunks, pos + 1, now, dictTag, matTag, out)
        ELSE out

\* Clone all chunks except Dictionary* and Material*.  The package holds a
\* chunk when the loop starts (hasChunk succeeded), so the first pass reads.
cloneChunks(package, dictTag, matTag) ==
    cloneLoop(package.chunks, 1, package.chunks[1], dictTag, matTag, <<>>)

-----------------------------------------------------------------------------
(* ShaderIndex: the text dictionary and the text shader records            *)

UINT16_MAX == 65535

\* ShaderIndex::ShaderIndex.
ShaderIndexOf(dictTag, matTag, cc) ==
    LET dict == getChunk(cc, dictTag)
        mat == getChunk(cc, matTag)
    IN  [mStringLines |-> dict,
         mShaderRecords |->
            [i \in 1..Len(mat.entries) |->
                LET e == mat.entries[i]
                    tail == tailAt(mat, e.offset)
                IN  [model |-> e.model, variant |-> e.variant, stage |-> e.stage,
                     offset |-> e.offset,
                     lineIndices |-> tail.lineIndices,
                     decodedShaderText |-> <<>>,
                     stringLength |-> tail.stringLength]]]

\* ShaderIndex::isEmpty.
textIsEmpty(index) == Len(index.mStringLines) = 0 /\ Len(index.mShaderRecords) = 0

\* ShaderIndex::writeChunks: the dictionary chunk, then the material chunk
\* with the entries followed by the tails, both in record order.
textWriteChunks(index, dictTag, matTag, tstream) ==
    tstream \o
    << Chunk(dictTag, index.mStringLines),
       Chunk(matTag,
             [entries |-> [i \in 1..Len(index.mShaderRecords) |->
                              LET r == index.mShaderRecords[i]
                              IN  [model |-> r.model, variant |-> r.variant,
                                   stage |-> r.stage, offset |-> r.offset]],
              tails |-> [i \in 1..Len(index.mShaderRecords) |->
                              LET r == index.mShaderRecords[i]
                              IN  [stringLength |-> r.stringLength,
                                   lineIndices |-> r.lineIndices]]]) >>

\* The text the line indices stand for: every line followed by '\n'.
RECURSIVE decodeLines(_, _, _)
decodeLines(lines, lineIndices, n) ==
    IF n = 0 THEN <<>>
    ELSE decodeLines(lines, lineIndices, n - 1) \o lines[lineIndices[n] + 1] \o <<NewLine>>

\* ShaderIndex::replaceShader, first loop: TRUE when some line index is not
\* below the dictionary size (the function then returns at once).
decodingError(index) ==
    \E i \in 1..Len(index.mShaderRecords) :
        \E n \in 1..Len(index.mShaderRecords[i].lineIndices) :
            index.mShaderRecords[i].lineIndices[n] >= Len(index.mStringLines)

\* ShaderIndex::replaceShader, first loop: every record's monolithic string.
decodeRecords(index) ==
    [i \in 1..Len(index.mShaderRecords) |->
        LET r == index.mShaderRecords[i]
        IN  [r EXCEPT !.decodedShaderText =
                decodeLines(index.mStringLines, r.lineIndices, Len(r.lineIndices))]]

\* ShaderIndex::replaceShader, second loop: the first record with the key
\* gets the new text; the loop breaks there.
replaceString(records, key, source) ==
    LET hits == {i \in 1..Len(records) : keyOf(records[i]) = key}
    IN  IF hits = {} THEN records
        ELSE [records EXCEPT ![CHOOSE i \in hits : \A j \in hits : i <= j]
                                 .decodedShaderText = source]

\* std::map<std::string_view, uint16_t> table, filled from mStringLines:
\* emplace keeps the first index of a line that occurs twice.  Each key is a
\* view into the std::string of mStringLines it was made from.
seedTable(lines) ==
    {[key |-> line,
      index |-> ((CHOOSE i \in 1..Len(lines) :
                     lines[i] = line /\ \A j \in 1..(i - 1) : lines[j] # line) - 1)
                    % (UINT16_MAX + 1),
      view |-> "dictionary"] :
        line \in {lines[i] : i \in 1..Len(lines)}}

\* The inner while loop: the first position from cur on (0-based) that holds
\* '\n' or is the end of the text.
RECURSIVE lineEnd(_, _)
lineEnd(text, cur) ==
    IF cur < Len(text) /\ text[cur + 1] # NewLine THEN lineEnd(text, cur + 1) ELSE cur

\* splitLoop that passes over empty lines.
RECURSIVE splitLoop_skipsEmpty(_, _, _)
splitLoop_skipsEmpty(text, cur, acc) ==
    IF cur >= Len(text) THEN acc
    ELSE LET end == lineEnd(text, cur)
         IN  splitLoop_skipsEmpty(text, end + 1,
                IF end = cur THEN acc ELSE Append(acc, SubSeq(text, cur + 1, end)))

\* The for loop over the text: the views (pos, len) it looks up, in order.
\* pos + len never exceeds the length, so the encoding error is never taken.
RECURSIVE splitLoop(_, _, _)
splitLoop(text, cur, acc) ==
    IF cur >= Len(text) THEN acc
    ELSE LET end == lineEnd(text, cur)
         IN  splitLoop(text, end + 1, Append(acc, SubSeq(text, cur + 1, end)))

NotFound == -1

\* table.find(newLine).  While no key dangles, the answer is the index
\* stored under the equal key, or NotFound.  Once mStringLines has been
\* reallocated, the keys made from its short (small-string) elements point
\* into freed storage: comparing with them reads whatever the storage holds
\* now, so the search may also miss, or stop at a dangling key of the same
\* length.
lookups(st, newLine) ==
    LET equal == {e \in st.table : e.key = newLine}
        intact == IF equal = {} THEN {NotFound} ELSE {e.index : e \in equal}
        dangling == {e \in st.table : e.view = "dictionary" /\ Len(e.key) = Len(newLine)}
    IN  IF st.stale
        THEN intact \cup {NotFound} \cup {e.index : e \in dangling}
        ELSE intact

\* encodeLines that puts a new line at the front of mStringLines, with
\* index 0.
RECURSIVE encodeLines_prepends(_, _, _)
encodeLines_prepends(st, L, k) ==
    IF k > Len(L) THEN {st}
    ELSE UNION {
        IF found = NotFound
        THEN IF Len(st.lines) > UINT16_MAX
             THEN {[st EXCEPT !.full = TRUE]}
             ELSE encodeLines_prepends(
                    [lines |-> <<L[k]>> \o st.lines,
                     table |-> st.table \cup
                        {[key |-> L[k], index |-> 0, view |-> "text"]},
                     stale |-> st.stale \/
                        \E e \in st.table : e.view = "dictionary" /\ Len(e.key) > 0,
                     indices |-> Append(st.indices, 0),
                     full |-> FALSE], L, k + 1)
        ELSE encodeLines_prepends([st EXCEPT !.indices = Append(@, found)], L, k + 1)
        : found \in lookups(st, L[k])}

\* encodeLines that gives a new line the index after the one it gets in
\* mStringLines.
RECURSIVE encodeLines_indexPastEnd(_, _, _)
encodeLines_indexPastEnd(st, L, k) ==
    IF k > Len(L) THEN {st}
    ELSE UNION {
        IF found = NotFound
        THEN IF Len(st.lines) > UINT16_MAX
             THEN {[st EXCEPT !.full = TRUE]}
             ELSE encodeLines_indexPastEnd(
                    [lines |-> Append(st.lines, L[k]),
                     table |-> st.table \cup
                        {[key |-> L[k], index |-> Len(st.lines) + 1, view |-> "text"]},
                     stale |-> st.stale \/
                        \E e \in st.table : e.view = "dictionary" /\ Len(e.key) > 0,
                     indices |-> Append(st.indices, Len(st.lines) + 1),
                     full |-> FALSE], L, k + 1)
        ELSE encodeLines_indexPastEnd([st EXCEPT !.indices = Append(@, found)], L, k + 1)
        : found \in lookups(st, L[k])}

\* The body of the for loop for the lines L[k..]: every way it can end.
\* mStringLines has the capacity of its size after the constructor, so the
\* first emplace_back reallocates it.
RECURSIVE encodeLines(_, _, _)
encodeLines(st, L, k) ==
    IF k > Len(L) THEN {st}
    ELSE UNION {
        IF found = NotFound
        THEN IF Len(st.lines) > UINT16_MAX
             THEN {[st EXCEPT !.full = TRUE]}
             ELSE encodeLines(
                    [lines |-> Append(st.lines, L[k]),
                     table |-> st.table \cup
                        {[key |-> L[k], index |-> Len(st.lines), view |-> "text"]},
                     stale |-> st.stale \/
                        \E e \in st.table : e.view = "dictionary" /\ Len(e.key) > 0,
                     indices |-> Append(st.indices, Len(st.lines)),
                     full |-> FALSE], L, k + 1)
        ELSE encodeLines([st EXCEPT !.indices = Append(@, found)], L, k + 1)
        : found \in lookups(st, L[k])}

\* ShaderIndex::replaceShader, last loop, from record i on: every index it
\* can leave behind.
RECURSIVE encodeRecords(_, _, _, _)
encodeRecords(st, records, i, offset) ==
    IF i > Len(records)
    THEN {[mStringLines |-> st.lines, mShaderRecords |-> records]}
    ELSE LET text == records[i].decodedShaderText
             begun == [records[i] EXCEPT !.stringLength = Len(text) + 1,
                                         !.lineIndices = <<>>,
                                         !.offset = offset]
         IN  UNION {
                LET recs == [records EXCEPT ![i] = [begun EXCEPT !.lineIndices = o.indices]]
                IN  IF o.full
                    THEN {[mStringLines |-> o.lines, mShaderRecords |-> recs]}
                    ELSE encodeRecords(
                            [lines |-> o.lines, table |-> o.table, stale |-> o.stale],
                            recs, i + 1,
                            offset + TailHeaderSize + IndexSize * Len(o.indices))
                : o \in encodeLines([lines |-> st.lines, table |-> st.table,
                                     stale |-> st.stale, indices |-> <<>>,
                                     full |-> FALSE],
                                    splitLoop(text, 0, <<>>), 1)}

\* ShaderIndex::replaceShader: every index the call can leave behind.
textReplaceShader(index, key, source) ==
    IF decodingError(index) THEN {index}
    ELSE encodeRecords(
            [lines |-> index.mStringLines, table |-> seedTable(index.mStringLines),
             stale |-> FALSE],
            replaceString(decodeRecords(index), key, source), 1,
            RecordCountSize + EntrySize * Len(index.mShaderRecords))

-----------------------------------------------------------------------------
(* BlobIndex: the SPIR-V dictionary and the SPIR-V shader records          *)

\* SMOL-V compression of a blob of SPIR-V words, and its inverse.
smolvEncode(words) == [smolv |-> words]
smolvDecode(blob) == blob.smolv

\* BlobIndex::BlobIndex: the decompressed blobs and the records.
BlobIndexOf(dictTag, matTag, cc) ==
    LET dict == getChunk(cc, dictTag)
    IN  [mDataBlobs |-> [k \in 1..Len(dict) |-> smolvDecode(dict[k])],
         mShaderRecords |-> getChunk(cc, matTag)]

\* BlobIndex::isEmpty.
blobIsEmpty(index) == Len(index.mDataBlobs) = 0 /\ Len(index.mShaderRecords) = 0

\* BlobIndex::replaceShader: the blob of the first record with the key is
\* resized and overwritten where it stands in mDataBlobs.
blobReplaceShader(index, key, spirv) ==
    LET hits == {i \in 1..Len(index.mShaderRecords) : keyOf(index.mShaderRecords[i]) = key}
    IN  IF hits = {} THEN index
        ELSE LET first == CHOOSE i \in hits : \A j \in hits : i <= j
             IN  [index EXCEPT
                    !.mDataBlobs[index.mShaderRecords[first].blobIndex + 1] = spirv]

\* filamat::BlobDictionary::addBlob: the index of the equal blob the
\* dictionary already holds, else the index of the blob appended.
addBlob(blobs, blob) ==
    LET same == {k \in 1..Len(blobs) : blobs[k] = blob}
    IN  IF same = {}
        THEN [blobs |-> Append(blobs, blob), index |-> Len(blobs)]
        ELSE [blobs |-> blobs, index |-> (CHOOSE k \in same : TRUE) - 1]

\* The first loop of writeChunks if it left each record the blob index it
\* had.
RECURSIVE consolidate_keepsIndices(_, _)
consolidate_keepsIndices(index, n) ==
    IF n = 0 THEN [blobs |-> <<>>, records |-> <<>>]
    ELSE LET before == consolidate_keepsIndices(index, n - 1)
             record == index.mShaderRecords[n]
             added == addBlob(before.blobs, index.mDataBlobs[record.blobIndex + 1])
         IN  [blobs |-> added.blobs, records |-> Append(before.records, record)]

\* BlobIndex::writeChunks, first loop, records 1..n: the consolidated
\* dictionary and the records with their new blob indices.
RECURSIVE consolidate(_, _)
consolidate(index, n) ==
    IF n = 0 THEN [blobs |-> <<>>, records |-> <<>>]
    ELSE LET before == consolidate(index, n - 1)
             record == index.mShaderRecords[n]
             added == addBlob(before.blobs, index.mDataBlobs[record.blobIndex + 1])
         IN  [blobs |-> added.blobs,
              records |-> Append(before.records,
                                 [record EXCEPT !.blobIndex = added.index])]

\* BlobIndex::writeChunks: the dictionary chunk, then the material chunk.
blobWriteChunks(index, dictTag, matTag, tstream) ==
    LET c == consolidate(index, Len(index.mShaderRecords))
    IN  tstream \o
        << Chunk(dictTag, [k \in 1..Len(c.blobs) |-> smolvEncode(c.blobs[k])]),
           Chunk(matTag, c.records) >>

-----------------------------------------------------------------------------
(* ShaderReplacer::replaceShaderSource                                     *)

\* What glslang makes of a GLSL source: a parse error, a link error, or
\* SPIR-V words.
SpirvBlobs == {<<7>>, <<8>>, <<7, 8>>}
Compilations ==
    {[error |-> e, spirv |-> <<>>] : e \in {"parse", "link"}}
    \cup {[error |-> "none", spirv |-> b] : b \in SpirvBlobs}

NoPackage == <<>>

\* A call's result: the value returned and the package built, if any.
Failed == [ret |-> FALSE, edited |-> NoPackage]
Rewritten(chunks) == [ret |-> TRUE, edited |-> <<packed(Package(chunks, TRUE))>>]

\* The text path of replaceShaderSource.
replaceText(key, source) ==
    LET cc == unpacked(mOriginalPackage)
        tstream == cloneChunks(cc, mDictionaryTag, mMaterialTag)
        shaderIndex == ShaderIndexOf(mDictionaryTag, mMaterialTag, cc)
    IN  IF textIsEmpty(shaderIndex) THEN {Rewritten(tstream)}
        ELSE {Rewritten(textWriteChunks(o, mDictionaryTag, mMaterialTag, tstream)) :
                o \in textReplaceShader(shaderIndex, key, source)}

\* ShaderReplacer::replaceSpirv.
replaceSpirv(key, source) ==
    UNION {
        IF compiled.error # "none" THEN {Failed}
        ELSE LET cc == unpacked(mOriginalPackage)
                 tstream == cloneChunks(cc, mDictionaryTag, mMaterialTag)
                 shaderIndex == BlobIndexOf(mDictionaryTag, mMaterialTag, cc)
             IN  IF blobIsEmpty(shaderIndex) THEN {Rewritten(tstream)}
                 ELSE {Rewritten(blobWriteChunks(
                          blobReplaceShader(shaderIndex, key, compiled.spirv),
                          mDictionaryTag, mMaterialTag, tstream))}
        : compiled \in Compilations}

\* Every result replaceShaderSource can have.
rewrites(key, source) ==
    IF ~parse(mOriginalPackage) THEN {Failed}
    ELSE IF ~hasChunk(mOriginalPackage, mMaterialTag)
            \/ ~hasChunk(mOriginalPackage, mDictionaryTag) THEN {Failed}
    ELSE IF mDictionaryTag = "DictionarySpirv" THEN replaceSpirv(key, source)
    ELSE replaceText(key, source)

\* The object can be called: it was constructed, and no assertion aborted
\* the program.
Callable == mBackend # "none" /\ (IF call = <<>> THEN TRUE ELSE call[1].fault = "none")

\* replaceShaderSource if a failed call deleted the edited package.
ReplaceShaderSource_failureResets(key, source) ==
    /\ Callable
    /\ \E o \in rewrites(key, source) :
            /\ mEditedPackage' = o.edited
            /\ call' = <<[key |-> key, source |-> source, ret |-> o.ret,
                          fault |-> "none"]>>
    /\ UNCHANGED <<mBackend, mMaterialTag, mDictionaryTag, mOriginalPackage>>

\* ShaderReplacer::replaceShaderSource.  assert_invariant(mEditedPackage ==
\* nullptr) aborts a debug build that already holds an edited package (the
\* call does not return: call keeps the last call that did, marked with the
\* fault); a release build replaces the pointer.
ReplaceShaderSource(key, source) ==
    /\ Callable
    /\ \E o \in rewrites(key, source) :
        \E asserts \in (IF o.ret /\ mEditedPackage # NoPackage THEN BOOLEAN ELSE {FALSE}) :
                /\ mEditedPackage' = IF o.ret /\ ~asserts THEN o.edited ELSE mEditedPackage
                /\ call' = IF asserts
                           THEN <<[call[1] EXCEPT !.fault = "assert"]>>
                           ELSE <<[key |-> key, source |-> source, ret |-> o.ret,
                                   fault |-> "none"]>>
    /\ UNCHANGED <<mBackend, mMaterialTag, mDictionaryTag, mOriginalPackage>>

\* ShaderReplacer::ShaderReplacer.
InitReplacer(backend, package) ==
    /\ mBackend = backend
    /\ mMaterialTag = materialTagOf(backend)
    /\ mDictionaryTag = dictionaryTagOf(backend)
    /\ mOriginalPackage = packed(package)
    /\ mEditedPackage = NoPackage
    /\ call = <<>>

\* No ArchiveCache is in use.
NoCache ==
    /\ InitCache
    /\ drv = "none"
    /\ input = <<>>
    /\ firstSel = NoMatch

-----------------------------------------------------------------------------
(* Packages and sources the replacer specifications range over             *)

MaxDict == 2       \* lines (blobs) of an input dictionary
MaxRecords == 2    \* shader records of an input package
MaxLines == 2      \* lines of an input shader
MaxSource == 3     \* characters of a replacement source
MaxChunks == 4     \* chunks of an input package of SpecChunks

SeqsUpTo(S, n) == UNION {[1..k -> S] : k \in 0..n}

\* Sequences of distinct shader keys.
KeyLists == {ks \in SeqsUpTo(ShaderKeys, MaxRecords) :
                \A i, j \in 1..Len(ks) : i # j => ks[i] # ks[j]}

\* The payload of a text material chunk as the package writer lays it out:
\* every offset is the start of the record's tail, every string length the
\* length of the text plus the terminator.
textPayload(dict, keys, lists) ==
    LET tails == [i \in 1..Len(keys) |->
                    [stringLength |->
                        Len(decodeLines(dict, lists[i], Len(lists[i]))) + 1,
                     lineIndices |-> lists[i]]]
        blank == [entries |-> keys, tails |-> tails]
    IN  [entries |-> [i \in 1..Len(keys) |->
                        [model |-> keys[i].model, variant |-> keys[i].variant,
                         stage |-> keys[i].stage, offset |-> tailStart(blank, i)]],
         tails |-> tails]

\* Dictionaries of text lines: empty lines and repeated lines included.
TextDicts == SeqsUpTo({<<>>, <<120>>, <<121>>}, MaxDict)

\* Well-formed text material payloads over a dictionary.
TextPayloads(dict) ==
    {textPayload(dict, kl[1], kl[2]) :
        kl \in {p \in KeyLists \X
                        SeqsUpTo(SeqsUpTo(0..(Len(dict) - 1), MaxLines), MaxRecords) :
                    Len(p[1]) = Len(p[2])}}

TextPackages ==
    UNION {{Package(<<Chunk("DictionaryText", d), Chunk("MaterialGlsl", p)>>, TRUE) :
                p \in TextPayloads(d)} :
           d \in TextDicts}

\* Replacement sources: with and without a final '\n', with empty lines.
Sources == SeqsUpTo({120, NewLine}, MaxSource)

\* SPIR-V packages: the dictionary may hold a blob twice, or a blob no
\* record refers to; two records may share a blob.
InputBlobs == {<<7>>, <<9>>}
SpirvRecords(n) ==
    {[i \in 1..Len(kb[1]) |->
        [model |-> kb[1][i].model, variant |-> kb[1][i].variant,
         stage |-> kb[1][i].stage, blobIndex |-> kb[2][i]]] :
        kb \in {p \in KeyLists \X SeqsUpTo(0..(n - 1), MaxRecords) :
                    Len(p[1]) = Len(p[2])}}

SpirvPackages ==
    UNION {{Package(<<Chunk("DictionarySpirv", [k \in 1..Len(d) |-> smolvEncode(d[k])]),
                      Chunk("MaterialSpirv", r)>>, TRUE) :
                r \in SpirvRecords(Len(d))} :
           d \in SeqsUpTo(InputBlobs, MaxDict)}

\* Packages of every layout: any chunks of distinct tags in any order, among
\* them chunks the rewriter does not know.
ChunkTags == {"DictionaryText", "MaterialGlsl", "MaterialMetal", "DictionarySpirv",
              "MaterialSpirv", "MaterialName", "MaterialVersion"}

chunkOf(tag) ==
    CASE tag = "DictionaryText" -> Chunk(tag, <<<<120>>>>)
      [] tag = "MaterialGlsl" ->
            Chunk(tag, textPayload(<<<<120>>>>,
                                   <<[model |-> 1, variant |-> 0, stage |-> 0]>>, <<<<0>>>>))
      [] tag = "MaterialMetal" ->
            Chunk(tag, textPayload(<<<<120>>>>,
                                   <<[model |-> 1, variant |-> 0, stage |-> 1]>>, <<<<0>>>>))
      [] tag = "DictionarySpirv" -> Chunk(tag, <<smolvEncode(<<9>>)>>)
      [] tag = "MaterialSpirv" ->
            Chunk(tag, <<[model |-> 1, variant |-> 0, stage |-> 0, blobIndex |-> 0]>>)
      [] tag = "MaterialName" -> Chunk(tag, <<1, 2, 3>>)
      [] tag = "MaterialVersion" -> Chunk(tag, <<>>)

Layouts == {ts \in SeqsUpTo(ChunkTags, MaxChunks) :
               \A i, j \in 1..Len(ts) : i # j => ts[i] # ts[j]}

layoutPackage(ts, intact) == Package([i \in 1..Len(ts) |-> chunkOf(ts[i])], intact)

-----------------------------------------------------------------------------
(* Specification SpecChunks: a ShaderReplacer of any backend over a        *)
(* package of any layout.                                                  *)

InitChunks ==
    /\ NoCache
    /\ NoWriter
    /\ \E b \in Backends, ts \in Layouts, intact \in BOOLEAN :
          InitReplacer(b, layoutPackage(ts, intact))

NextChunks ==
    \E k \in ShaderKeys, s \in {<<121>>, <<120, NewLine>>} :
        ReplaceShaderSource(k, s) /\ UNCHANGED <<cacheVars, drvVars, writerVars>>

SpecChunks == InitChunks /\ [][NextChunks]_vars

-----------------------------------------------------------------------------
(* Specification SpecText: an OpenGL ShaderReplacer that is asked for one  *)
(* rewrite, over every well-formed text package and every source.          *)

InitText ==
    /\ NoCache
    /\ NoWriter
    /\ \E p \in TextPackages : InitReplacer("OPENGL", p)

NextText ==
    /\ call = <<>>
    /\ \E k \in ShaderKeys, s \in Sources :
          ReplaceShaderSource(k, s) /\ UNCHANGED <<cacheVars, drvVars, writerVars>>

SpecText == InitText /\ [][NextText]_vars

-----------------------------------------------------------------------------
(* Specification SpecSpirv: a Vulkan ShaderReplacer over every well-formed *)
(* SPIR-V package.                                                         *)

InitSpirv ==
    /\ NoCache
    /\ NoWriter
    /\ \E p \in SpirvPackages : InitReplacer("VULKAN", p)

NextSpirv ==
    \E k \in ShaderKeys, s \in {<<120>>} :
        ReplaceShaderSource(k, s) /\ UNCHANGED <<cacheVars, drvVars, writerVars>>

SpecSpirv == InitSpirv /\ [][NextSpirv]_vars

-----------------------------------------------------------------------------
(* WritableArchive: the spec-file grammar *)

\* Characters are their ASCII codes; a C string ends before its first 0.
Keywords ==
    [BlendingMode |-> <<66, 108, 101, 110, 100, 105, 110, 103, 77, 111, 100, 101>>,
     ShadingModel |-> <<83, 104, 97, 100, 105, 110, 103, 77, 111, 100, 101, 108>>,
     unsupported |-> <<117, 110, 115, 117, 112, 112, 111, 114, 116, 101, 100>>,
     optional |-> <<111, 112, 116, 105, 111, 110, 97, 108>>,
     required |-> <<114, 101, 113, 117, 105, 114, 101, 100>>,
     opaque |-> <<111, 112, 97, 113, 117, 101>>,
     transparent |-> <<116, 114, 97, 110, 115, 112, 97, 114, 101, 110, 116>>,
     add |-> <<97, 100, 100>>,
     masked |-> <<109, 97, 115, 107, 101, 100>>,
     fade |-> <<102, 97, 100, 101>>,
     multiply |-> <<109, 117, 108, 116, 105, 112, 108, 121>>,
     screen |-> <<115, 99, 114, 101, 101, 110>>,
     unlit |-> <<117, 110, 108, 105, 116>>,
     lit |-> <<108, 105, 116>>,
     subsurface |-> <<115, 117, 98, 115, 117, 114, 102, 97, 99, 101>>,
     cloth |-> <<99, 108, 111, 116, 104>>,
     specularGlossiness |-> <<115, 112, 101, 99, 117, 108, 97, 114, 71, 108, 111, 115, 115, 105, 110, 101, 115, 115>>]

\* Keyword::test: strncmp(cursor, txt, len) == 0.
test(txt, cursor) == StrNCmpIsZero(cursor, txt, Len(txt))

\* The chain of keyword tests of a read function: the value and the length
\* of the first keyword of the table that the cursor starts with, else 0.
firstKeyword(cursor, table, k) ==
    LET first[j \in k..(Len(table) + 1)] ==
            IF j > Len(table) THEN [length |-> 0, value |-> <<>>]
            ELSE IF test(table[j][1], cursor)
                 THEN [length |-> Len(table[j][1]), value |-> <<table[j][2]>>]
                 ELSE first[j + 1]
    IN first[k]

readArchiveFeature(cursor) ==
    firstKeyword(cursor, <<<<Keywords.unsupported, UNSUPPORTED>>,
                           <<Keywords.required, REQUIRED>>,
                           <<Keywords.optional, OPTIONAL>>>>, 1)

readBlendingMode(cursor) ==
    firstKeyword(cursor, <<<<Keywords.opaque, "OPAQUE">>,
                           <<Keywords.transparent, "TRANSPARENT">>,
                           <<Keywords.add, "ADD">>,
                           <<Keywords.masked, "MASKED">>,
                           <<Keywords.fade, "FADE">>,
                           <<Keywords.multiply, "MULTIPLY">>,
                           <<Keywords.screen, "SCREEN">>>>, 1)

readShadingModel(cursor) ==
    firstKeyword(cursor, <<<<Keywords.unlit, "UNLIT">>,
                           <<Keywords.lit, "LIT">>,
                           <<Keywords.subsurface, "SUBSURFACE">>,
                           <<Keywords.cloth, "CLOTH">>,
                           <<Keywords.specularGlossiness, "SPECULAR_GLOSSINESS">>>>, 1)

isAlphaNumeric(c) ==
    \/ c >= 48 /\ c <= 57
    \/ c = 95
    \/ c >= 97 /\ c <= 122
    \/ c >= 65 /\ c <= 90

isWhitespace(c) == c = 32 \/ c = 9

\* readIdentifier and readWhitespace: the number of leading characters of
\* the cursor that are alphanumeric, or whitespace.
readIdentifier(cursor) ==
    CHOOSE i \in 0..Len(cursor) :
        /\ \A j \in 1..i : isAlphaNumeric(cursor[j])
        /\ i < Len(cursor) => ~isAlphaNumeric(cursor[i + 1])

readWhitespace(cursor) ==
    CHOOSE i \in 0..Len(cursor) :
        /\ \A j \in 1..i : isWhitespace(cursor[j])
        /\ i < Len(cursor) => ~isWhitespace(cursor[i + 1])

-----------------------------------------------------------------------------
(* WritableArchive: addMaterial and addSpecLine *)

NoFlags == [id \in {} |-> UNSUPPORTED]

\* A slot of mMaterials that no addMaterial has assigned: an empty name,
\* package and flag map, with the blending and shading the constructor of
\* the vector left there.
emptyMaterial(blending, shading) ==
    [name |-> <<>>, package |-> <<>>, flags |-> NoFlags,
     blendingMode |-> blending, shadingModel |-> shading]

\* WritableArchive::WritableArchive(materialCount).
InitWriter(materialCount, blending, shading) ==
    /\ wMaterials = [k \in 1..materialCount |-> emptyMaterial(blending, shading)]
    /\ mMaterialIndex = -1
    /\ mLineNumber = 1
    /\ wcall = <<>>
    /\ wlog = <<>>
    /\ wout = <<>>

\* The WritableArchive can be called: the last call did not leave the
\* bounds of mMaterials.
Writable ==
    /\ wMaterials # <<>>
    /\ IF wcall = <<>> THEN TRUE ELSE wcall[1].error # "out of bounds"

WriterCall(name, line, error, column) ==
    [op |-> name, line |-> line, error |-> error, column |-> column,
     before |-> wMaterials]

\* WritableArchive::addMaterial.
AddMaterial(name, package) ==
    /\ Writable
    /\ IF mMaterialIndex + 1 < Len(wMaterials)
       THEN /\ mMaterialIndex' = mMaterialIndex + 1
            /\ wMaterials' = [wMaterials EXCEPT ![mMaterialIndex + 2] =
                   [name |-> name, package |-> package, flags |-> NoFlags,
                    blendingMode |-> INVALID_BLENDING,
                    shadingModel |-> INVALID_SHADING_MODEL]]
            /\ mLineNumber' = 1
            /\ wlog' = Append(wlog, <<>>)
            /\ wcall' = <<WriterCall("addMaterial", <<>>, "", 0)>>
       ELSE \* mMaterials[++mMaterialIndex] past the end of the vector
            /\ mMaterialIndex' = mMaterialIndex + 1
            /\ wcall' = <<WriterCall("addMaterial", <<>>, "out of bounds", 0)>>
            /\ UNCHANGED <<wMaterials, mLineNumber, wlog>>
    /\ UNCHANGED wout

\* The outcome of parsing a line: the material as the parse left it, and
\* the message and column of the syntax error ("" when there is none).
Parsed(material, error, column) ==
    [material |-> material, error |-> error, column |-> column]

\* The cursor at offset p of the line.
at(line, p) == SubSeq(line, p + 1, Len(line))

\* The end of addSpecLine: nothing may follow the value.
trailing(material, line, p) ==
    IF CharAt(line, p + 1) # 0
    THEN Parsed(material, "unexpected trailing character", 1 + p)
    ELSE Parsed(material, "", 0)

\* The tail of parseBlendingMode, parseShadingModel and parseFeatureFlag:
\* whitespace, '=', whitespace from offset p, then the value read by the
\* caller. Whether the '=' is there, and the offset the cursor is left at.
equalSign(line, p) ==
    LET p1 == p + readWhitespace(at(line, p))
        p2 == p1 + 1
    IN  IF CharAt(line, p1 + 1) # 61 THEN [found |-> FALSE, p |-> p2]
        ELSE [found |-> TRUE, p |-> p2 + readWhitespace(at(line, p2))]

parseBlendingMode(material, line, p) ==
    LET eq == equalSign(line, p)
        r == readBlendingMode(at(line, eq.p))
    IN  IF ~eq.found THEN Parsed(material, "expected equal sign", 1 + eq.p)
        ELSE IF r.length = 0
        THEN Parsed(material, "expected lowercase blending mode enum", 1 + eq.p)
        ELSE trailing([material EXCEPT !.blendingMode = r.value[1]],
                      line, eq.p + r.length)

parseShadingModel(material, line, p) ==
    LET eq == equalSign(line, p)
        r == readShadingModel(at(line, eq.p))
    IN  IF ~eq.found THEN Parsed(material, "expected equal sign", 1 + eq.p)
        ELSE IF r.length = 0
        THEN Parsed(material, "expected lowercase shading enum", 1 + eq.p)
        ELSE trailing([material EXCEPT !.shadingModel = r.value[1]],
                      line, eq.p + r.length)

\* material.flags[id]: the entry of id, created with the zero value of
\* ArchiveFeature when the map has none.
flagsEntry(flags, id) ==
    IF id \in DOMAIN flags THEN flags ELSE (id :> UNSUPPORTED) @@ flags

parseFeatureFlag(material, line) ==
    LET length == readIdentifier(line)
        id == SubSeq(line, 1, length)
        eq == equalSign(line, length)
        r == readArchiveFeature(at(line, eq.p))
        entered == [material EXCEPT !.flags = flagsEntry(material.flags, id)]
    IN  IF length = 0 THEN Parsed(material, "expected identifier", 1)
        ELSE IF ~eq.found THEN Parsed(material, "expected equal sign", 1 + eq.p)
        ELSE IF r.length = 0
        THEN Parsed(entered, "expected unsupported / optional / required",
                    1 + eq.p)
        ELSE trailing([entered EXCEPT !.flags[id] = r.value[1]],
                      line, eq.p + r.length)

\* The body of addSpecLine on the current material.
specLine(material, line) ==
    IF CharAt(line, 1) = 0 \/ CharAt(line, 1) = 35 THEN Parsed(material, "", 0)
    ELSE IF test(Keywords.BlendingMode, line)
    THEN parseBlendingMode(material, line, Len(Keywords.BlendingMode))
    ELSE IF test(Keywords.ShadingModel, line)
    THEN parseShadingModel(material, line, Len(Keywords.ShadingModel))
    ELSE parseFeatureFlag(material, line)

\* WritableArchive::addSpecLine. A syntax error panics: the call ends where
\* the error is found, with the material as the parse left it.
AddSpecLine(line) ==
    /\ Writable
    /\ mMaterialIndex > -1
    /\ LET r == specLine(wMaterials[mMaterialIndex + 1], line)
       IN  /\ wMaterials' = [wMaterials EXCEPT ![mMaterialIndex + 1] = r.material]
           /\ mLineNumber' = IF r.error = "" THEN mLineNumber + 1 ELSE mLineNumber
           /\ wcall' = <<WriterCall("addSpecLine", line, r.error, r.column)>>
    /\ wlog' = [wlog EXCEPT ![Len(wlog)] = Append(@, line)]
    /\ UNCHANGED <<mMaterialIndex, wout>>

-----------------------------------------------------------------------------
(* WritableArchive::serialize and convertOffsetsToPointers *)

sizeofReadableArchive == 24
sizeofArchiveSpec == 40
sizeofArchiveFlag == 16

\* The sum of s[1..n].
sumTo(s, n) ==
    LET sum[k \in 0..n] == IF k = 0 THEN 0 ELSE sum[k - 1] + s[k]
    IN  sum[n]

\* The orders in which a hash map with the keys S can be iterated.
Orders(S) ==
    {o \in [1..Cardinality(S) -> S] :
        \A i, j \in 1..Cardinality(S) : i # j => o[i] # o[j]}

\* One iteration order for the flags of every material.
FlagOrders(materials) ==
    {o \in [1..Len(materials) ->
               UNION {Orders(DOMAIN materials[i].flags) : i \in 1..Len(materials)}] :
        \A i \in 1..Len(materials) : o[i] \in Orders(DOMAIN materials[i].flags)}

\* The concatenation of the sequences s[1..n].
concat(s, n) ==
    LET cat[k \in 0..n] == IF k = 0 THEN <<>> ELSE cat[k - 1] \o s[k]
    IN  cat[n]

\* A prepass that lays the flag names out before the flag records.
sectionOffsets_namesFirst(materials, order) ==
    LET n == Len(materials)
        flagCount == sumTo([i \in 1..n |-> Len(order[i])], n)
        charCount == sumTo([i \in 1..n |->
                         sumTo([j \in 1..Len(order[i]) |-> Len(order[i][j]) + 1],
                               Len(order[i]))], n)
        nameOffset == sizeofReadableArchive + n * sizeofArchiveSpec
        flaglistOffset == nameOffset + charCount
        filamatOffset == flaglistOffset + flagCount * sizeofArchiveFlag
    IN  [flaglistOffset |-> flaglistOffset, nameOffset |-> nameOffset,
         filamatOffset |-> filamatOffset,
         byteCount |-> filamatOffset
                         + sumTo([i \in 1..n |-> Len(materials[i].package)], n)]

\* The byte counting prepass of serialize: where each section starts.
sectionOffsets(materials, order) ==
    LET n == Len(materials)
        flagCount == sumTo([i \in 1..n |-> Len(order[i])], n)
        charCount == sumTo([i \in 1..n |->
                         sumTo([j \in 1..Len(order[i]) |-> Len(order[i][j]) + 1],
                               Len(order[i]))], n)
        flaglistOffset == sizeofReadableArchive + n * sizeofArchiveSpec
        nameOffset == flaglistOffset + flagCount * sizeofArchiveFlag
        filamatOffset == nameOffset + charCount
    IN  [flaglistOffset |-> flaglistOffset, nameOffset |-> nameOffset,
         filamatOffset |-> filamatOffset,
         byteCount |-> filamatOffset
                         + sumTo([i \in 1..n |-> Len(materials[i].package)], n)]

\* The ArchiveSpec records: flags and packages are referenced by the byte
\* offset of each material's first flag and of its package.
archiveSpecs(materials, order, offsets) ==
    [i \in 1..Len(materials) |->
        [shadingModel |-> materials[i].shadingModel,
         blendingMode |-> materials[i].blendingMode,
         flagsCount |-> Len(order[i]),
         flagsOffset |-> offsets.flaglistOffset
             + sumTo([k \in 1..(i - 1) |-> Len(order[k])], i - 1) * sizeofArchiveFlag,
         packageByteCount |-> Len(materials[i].package),
         packageOffset |-> offsets.filamatOffset
             + sumTo([k \in 1..(i - 1) |-> Len(materials[k].package)], i - 1)]]

\* The flag names of all materials in writing order, each with its 0.
flagNameList(order) ==
    concat([i \in 1..Len(order) |-> order[i]], Len(order))

\* The ArchiveFlag records.
archiveFlags(materials, order, offsets) ==
    LET names == flagNameList(order)
        values == concat([i \in 1..Len(order) |->
                      [j \in 1..Len(order[i]) |-> materials[i].flags[order[i][j]]]],
                         Len(order))
    IN  [f \in 1..Len(names) |->
            [nameOffset |-> offsets.nameOffset
                 + sumTo([k \in 1..(f - 1) |-> Len(names[k]) + 1], f - 1),
             value |-> values[f]]]

\* The buffer serialize fills: header, specs, flags, names, packages, one
\* after the other.
outputBuf(materials, order) ==
    LET offsets == sectionOffsets(materials, order)
        names == flagNameList(order)
    IN  [archive |-> [magic |-> "UBER", version |-> 0,
                      specsCount |-> Len(materials),
                      specsOffset |-> sizeofReadableArchive],
         specs |-> archiveSpecs(materials, order, offsets),
         flags |-> archiveFlags(materials, order, offsets),
         flagNames |-> concat([f \in 1..Len(names) |-> names[f] \o <<0>>],
                              Len(names)),
         packages |-> concat([i \in 1..Len(materials) |-> materials[i].package],
                             Len(materials)),
         byteCount |-> offsets.byteCount]

\* ZSTD_compress, and ZSTD_getFrameContentSize with ZSTD_decompress.
ZSTD_compress(buf) == [zstd |-> buf]
ZSTD_decompress(data) == data.zstd

\* WritableArchive::serialize.
Serialize ==
    /\ Writable
    /\ \E order \in FlagOrders(wMaterials) :
          wout' = <<ZSTD_compress(outputBuf(wMaterials, order))>>
    /\ wcall' = <<WriterCall("serialize", <<>>, "", 0)>>
    /\ UNCHANGED <<wMaterials, mMaterialIndex, mLineNumber, wlog>>

\* What a read of the buffer finds at a place no record or string was
\* written to.
GarbageSpec ==
    [shadingModel |-> "garbage", blendingMode |-> "garbage", flagsCount |-> 0,
     flagsOffset |-> 0, packageByteCount |-> 0, packageOffset |-> 0]
GarbageFlag == [nameOffset |-> 0, value |-> "garbage"]
GarbageByte == -1

\* The ArchiveSpec at a byte address of the buffer.
specAt(buf, address) ==
    LET k == (address - sizeofReadableArchive) \div sizeofArchiveSpec
    IN  IF /\ address >= sizeofReadableArchive
           /\ (address - sizeofReadableArchive) % sizeofArchiveSpec = 0
           /\ k < Len(buf.specs)
        THEN buf.specs[k + 1] ELSE GarbageSpec

\* The ArchiveFlag at a byte address of the buffer.
flagAt(buf, address) ==
    LET start == sizeofReadableArchive + Len(buf.specs) * sizeofArchiveSpec
        k == (address - start) \div sizeofArchiveFlag
    IN  IF /\ address >= start
           /\ (address - start) % sizeofArchiveFlag = 0
           /\ k < Len(buf.flags)
        THEN buf.flags[k + 1] ELSE GarbageFlag

\* The byte at a byte address of the buffer.
byteAt(buf, address) ==
    LET start == sizeofReadableArchive + Len(buf.specs) * sizeofArchiveSpec
                     + Len(buf.flags) * sizeofArchiveFlag
        bytes == buf.flagNames \o buf.packages
    IN  IF address >= start /\ address - start < Len(bytes)
        THEN bytes[address - start + 1] ELSE GarbageByte

\* The n bytes from a byte address on.
bytesAt(buf, address, n) == [k \in 1..n |-> byteAt(buf, address + k - 1)]

\* The C string at a byte address: the bytes before the first 0.
stringAt(buf, address) ==
    LET length == CHOOSE n \in 0..buf.byteCount :
                      /\ \A k \in 0..(n - 1) : byteAt(buf, address + k) \notin {0, GarbageByte}
                      /\ byteAt(buf, address + n) \in {0, GarbageByte}
    IN  bytesAt(buf, address, length)

\* Both assertions of convertOffsetsToPointers hold.
offsetsAligned(buf) ==
    /\ buf.archive.specsOffset % 8 = 0
    /\ \A i \in 0..(buf.archive.specsCount - 1) :
          specAt(buf, 8 * (buf.archive.specsOffset \div 8) + i * sizeofArchiveSpec)
              .flagsOffset % 8 = 0

\* convertOffsetsToPointers: the archive as the pointers show it. An offset
\* of specs or flags is added to a uint64_t pointer in units of 8 bytes.
convertOffsetsToPointers(buf) ==
    LET specs == 8 * (buf.archive.specsOffset \div 8)
    IN  [i \in 1..buf.archive.specsCount |->
            LET spec == specAt(buf, specs + (i - 1) * sizeofArchiveSpec)
                flags == 8 * (spec.flagsOffset \div 8)
            IN  [shadingModel |-> spec.shadingModel,
                 blendingMode |-> spec.blendingMode,
                 flags |-> [j \in 1..spec.flagsCount |->
                     LET flag == flagAt(buf, flags + (j - 1) * sizeofArchiveFlag)
                     IN  [name |-> stringAt(buf, flag.nameOffset),
                          value |-> flag.value]],
                 packageByteCount |-> spec.packageByteCount,
                 package |-> bytesAt(buf, spec.packageOffset, spec.packageByteCount)]]

\* ArchiveCache::load of the bytes a WritableArchive wrote. A failing
\* alignment assertion stops a build that has assertions; any other build
\* goes on with the truncated pointers.
LoadSerialized ==
    /\ wout # <<>>
    /\ LET buf == ZSTD_decompress(wout[1])
       IN  \E asserts \in BOOLEAN :
              IF asserts /\ ~offsetsAligned(buf)
              THEN /\ Alive
                   /\ mArchive = NoArchive
                   /\ fault' = "abort"
                   /\ op' = "load"
                   /\ UNCHANGED <<mArchive, mMaterials, built, destroyed, freed,
                                  reqs, sel, ret, verdicts, didBuild, mark>>
              ELSE Load(convertOffsetsToPointers(buf))
    /\ UNCHANGED <<drvVars, replVars, writerVars>>

-----------------------------------------------------------------------------
(* Specification SpecArchive: a WritableArchive described by any materials  *)
(* and spec lines, serialized once at any time, and an ArchiveCache that    *)
(* loads what it wrote.                                                     *)

MaxMaterials == 2   \* slots of a WritableArchive
MaxSpecLines == 3   \* spec lines given to a WritableArchive

WriterPackages == {<<5>>, <<0, 6>>}

\* "", "# x", "BlendingMode=opaque", "ShadingModel = lit", "a=required",
\* "ab = optional", "a=unsupported", "BlendingModes=required",
\* "a=requiredx", "b=maybe", "=required", "a required".
SpecLines ==
    {<<>>,
     <<35, 32, 120>>,
     Keywords.BlendingMode \o <<61>> \o Keywords.opaque,
     Keywords.ShadingModel \o <<32, 61, 32>> \o Keywords.lit,
     <<97, 61>> \o Keywords.required,
     <<97, 98, 32, 61, 32>> \o Keywords.optional,
     <<97, 61>> \o Keywords.unsupported,
     Keywords.BlendingMode \o <<115, 61>> \o Keywords.required,
     <<97, 61>> \o Keywords.required \o <<120>>,
     <<98, 61, 109, 97, 121, 98, 101>>,
     <<61>> \o Keywords.required,
     <<97, 32>> \o Keywords.required}

InitArchive ==
    /\ NoCache
    /\ NoReplacer
    /\ \E n \in 1..MaxMaterials, zero \in BOOLEAN :
          InitWriter(n, IF zero THEN "OPAQUE" ELSE INVALID_BLENDING,
                        IF zero THEN "UNLIT" ELSE INVALID_SHADING_MODEL)

NextArchive ==
    \/ \E p \in WriterPackages :
          /\ wout = <<>>
          /\ AddMaterial(<<109>>, p)
          /\ UNCHANGED <<cacheVars, drvVars, replVars>>
    \/ \E line \in SpecLines :
          /\ wout = <<>>
          /\ sumTo([i \in 1..Len(wlog) |-> Len(wlog[i])], Len(wlog)) < MaxSpecLines
          /\ AddSpecLine(line)
          /\ UNCHANGED <<cacheVars, drvVars, replVars>>
    \/ /\ wout = <<>>
       /\ Serialize
       /\ UNCHANGED <<cacheVars, drvVars, replVars>>
    \/ LoadSerialized

SpecArchive == InitArchive /\ [][NextArchive]_vars

-----------------------------------------------------------------------------
(* Specification SpecCap: an OpenGL ShaderReplacer that is asked for one   *)
(* rewrite of a package whose dictionary is at the limit of the 16-bit     *)
(* line indices.                                                           *)

\* Dictionaries of UINT16_MAX - 1 and of UINT16_MAX lines "y".
CapDicts == {[i \in 1..n |-> <<121>>] \o <<>> : n \in (UINT16_MAX - 1)..UINT16_MAX}

\* Well-formed payloads of at most two records, of the keys with variant
\* 0, each shader one line or two.
CapPayloads(dict) ==
    {textPayload(dict, kl[1], kl[2]) :
        kl \in {p \in {ks \in KeyLists : \A i \in 1..Len(ks) : ks[i].variant = 0} \X
                        SeqsUpTo({<<0>>, <<0, UINT16_MAX - 2>>}, MaxRecords) :
                    Len(p[1]) = Len(p[2])}}

CapPackages ==
    UNION {{Package(<<Chunk("DictionaryText", d), Chunk("MaterialGlsl", p)>>, TRUE) :
                p \in CapPayloads(d)} :
           d \in CapDicts}

\* "y", "x", "x\nz": no, one and two lines the dictionary does not have.
CapSources == {<<121>>, <<120>>, <<120, NewLine, 122>>}

InitCap ==
    /\ NoCache
    /\ NoWriter
    /\ \E p \in CapPackages : InitReplacer("OPENGL", p)

NextCap ==
    /\ call = <<>>
    /\ \E k \in ShaderKeys, s \in CapSources :
          ReplaceShaderSource(k, s) /\ UNCHANGED <<cacheVars, drvVars, writerVars>>

SpecCap == InitCap /\ [][NextCap]_vars

-----------------------------------------------------------------------------
(* The matcher as the specification states it (section 4.9) *)

\* The spec holds a flag of exactly that name with one of the values.
HasFlag(spec, name, values) ==
    \E j \in 1..Len(spec.flags) :
        spec.flags[j].name = name /\ spec.flags[j].value \in values

MappedTrue(r, name) == name \in DOMAIN r.features /\ r.features[name]

BlendingPasses(spec, r) ==
    spec.blendingMode = INVALID_BLENDING \/ spec.blendingMode = r.blendingMode

ShadingPasses(spec, r) ==
    spec.shadingModel = INVALID_SHADING_MODEL \/ spec.shadingModel = r.shadingModel

CoveragePasses(spec, r) ==
    \A n \in Names : MappedTrue(r, n) => HasFlag(spec, n, {OPTIONAL, REQUIRED})

RequiredPasses(spec, r) ==
    \A n \in Names : HasFlag(spec, n, {REQUIRED}) => MappedTrue(r, n)

Suitable(spec, r) ==
    /\ BlendingPasses(spec, r)
    /\ ShadingPasses(spec, r)
    /\ CoveragePasses(spec, r)
    /\ RequiredPasses(spec, r)

\* A getMaterial call has returned to its caller.
Returned == op = "getMaterial" /\ fault # "abort"

\* The specs the last getMaterial call examined, with their verdicts.
Examined == 1..Len(verdicts)

-----------------------------------------------------------------------------
(* Reading packages, for the claims about the rewriter                     *)

\* The last replaceShaderSource call returned true, and mEditedPackage is
\* the package it built.
Rewrote == call # <<>> /\ call[1].ret /\ call[1].fault = "none"

original == unpacked(mOriginalPackage)
edited == unpacked(mEditedPackage[1])

\* How often a chunk (tag, size, payload) occurs in a package.
Occurrences(package, c) ==
    Cardinality({k \in 1..Len(package.chunks) :
                    package.chunks[k].tag = c.tag /\ package.chunks[k].payload = c.payload})

\* The chunks the rewriter must pass through.
PassThrough(c) == c.tag # mDictionaryTag /\ c.tag # mMaterialTag

\* The keys of the records of a text or SPIR-V package.
TextKeys(package) ==
    IF hasChunk(package, mMaterialTag)
    THEN {keyOf(getChunk(package, mMaterialTag).entries[i]) :
            i \in 1..Len(getChunk(package, mMaterialTag).entries)}
    ELSE {}

SpirvKeys(package) ==
    IF hasChunk(package, mMaterialTag)
    THEN {keyOf(getChunk(package, mMaterialTag)[i]) :
            i \in 1..Len(getChunk(package, mMaterialTag))}
    ELSE {}

\* The text a reader of the package decodes for the record with the key.
TextOf(package, key) ==
    LET index == ShaderIndexOf(mDictionaryTag, mMaterialTag, package)
        r == index.mShaderRecords[
                CHOOSE i \in 1..Len(index.mShaderRecords) :
                    keyOf(index.mShaderRecords[i]) = key]
    IN  decodeLines(index.mStringLines, r.lineIndices, Len(r.lineIndices))

\* The blob a reader of the package finds for the record with the key.
BlobOf(package, key) ==
    LET index == BlobIndexOf(mDictionaryTag, mMaterialTag, package)
        r == index.mShaderRecords[
                CHOOSE i \in 1..Len(index.mShaderRecords) :
                    keyOf(index.mShaderRecords[i]) = key]
    IN  index.mDataBlobs[r.blobIndex + 1]

\* The lines of a source, each followed by '\n': the source itself, with
\* the final '\n' added when it is missing.
LinesOf(source) ==
    IF source = <<>> \/ source[Len(source)] = NewLine THEN source
    ELSE Append(source, NewLine)

-----------------------------------------------------------------------------
(* Claims *)

\* C1: getMaterial returns the lowest-index spec that passes the four
\* suitability tests: no spec with a smaller index than the returned one
\* is suitable.
C1_LowestSuitable ==
    (Returned /\ sel # NoMatch) =>
        \A k \in 1..sel : ~Suitable(mArchive[1][k], reqs[1])

\* C2: a spec that reaches the coverage test passes it iff every feature
\* mapped to true has a flag of exactly that name valued OPTIONAL or
\* REQUIRED.
C2_CoverageExactName ==
    Returned =>
        \A k \in Examined :
            verdicts[k] \notin {"blend mode mismatch", "material model"} =>
                ((verdicts[k] # "mesh requirement")
                    <=> CoveragePasses(mArchive[1][k], reqs[1]))

\* C3: a spec holding a REQUIRED flag whose name is not mapped to true is
\* rejected; a spec whose REQUIRED flags are all mapped to true is not
\* rejected by the required-satisfaction test.
C3_RequiredSatisfaction ==
    Returned =>
        \A k \in Examined :
            /\ ~RequiredPasses(mArchive[1][k], reqs[1]) => verdicts[k] # "suitable"
            /\ RequiredPasses(mArchive[1][k], reqs[1]) => verdicts[k] # "required flag"

\* C3 witness: the first spec was rejected for an unsatisfied REQUIRED flag
\* and the second, which holds a satisfied REQUIRED flag, was selected.
C3_Witness ==
    /\ Returned
    /\ verdicts = <<"required flag", "suitable">>
    /\ HasFlag(mArchive[1][2], <<1>>, {REQUIRED})
    /\ <<1>> \in DOMAIN reqs[1].features

\* C4: a spec with INVALID blending (shading) passes the blending (shading)
\* test whatever is requested; a spec with a set value passes only when it
\* equals the requested value.
C4_BlendingShading ==
    Returned =>
        \A k \in Examined :
            LET spec == mArchive[1][k]
                passedBlending == verdicts[k] # "blend mode mismatch"
                passedShading == verdicts[k] \notin {"blend mode mismatch", "material model"}
            IN  /\ spec.blendingMode = INVALID_BLENDING => passedBlending
                /\ spec.blendingMode # INVALID_BLENDING =>
                      (passedBlending <=> spec.blendingMode = reqs[1].blendingMode)
                /\ passedBlending =>
                      /\ spec.shadingModel = INVALID_SHADING_MODEL => passedShading
                      /\ spec.shadingModel # INVALID_SHADING_MODEL =>
                            (passedShading <=> spec.shadingModel = reqs[1].shadingModel)

\* C4 witness: a spec with a set, different blending mode was rejected and
\* the next, with INVALID blending and the requested shading, passed both.
C4_Witness ==
    /\ Returned
    /\ Len(verdicts) = 2
    /\ verdicts[1] = "blend mode mismatch"
    /\ verdicts[2] \notin {"blend mode mismatch", "material model"}
    /\ mArchive[1][2].blendingMode = INVALID_BLENDING
    /\ mArchive[1][2].shadingModel = reqs[1].shadingModel

\* C5: getMaterial returns null exactly when no spec of the archive is
\* suitable, and then builds no material; it never falls back to spec 0.
C5_NullIffNoneSuitable ==
    Returned =>
        /\ (ret = NullMaterial) <=>
              (\A k \in 1..Len(mArchive[1]) : ~Suitable(mArchive[1][k], reqs[1]))
        /\ ret = NullMaterial => (sel = NoMatch /\ ~didBuild)

\* C6: what getMaterial selected in an archive it still selects, for the
\* same requirements, in the archive with further specs appended.
C6_PrefixMonotone ==
    (drv = "done" /\ firstSel # NoMatch) => sel = firstSel

\* C6 witness: the appended spec is suitable as well, and the choice made in
\* the shorter archive stood.
C6_Witness ==
    /\ drv = "done"
    /\ firstSel = 0
    /\ sel = 0
    /\ Len(mArchive[1]) = 2
    /\ specVerdict(mArchive[1][2], reqs[1]) = "suitable"

\* C7: a getMaterial call with the requirements of the first call selects
\* the index the first call selected, whatever was called in between and
\* whatever the handle cache holds.
C7_SelectionPure ==
    (op = "getMaterial" /\ mark # NoMark /\ reqs[1] = mark[1].reqs) =>
        sel = mark[1].sel

\* C7 witness: the first call's requirements are asked again after other
\* calls have put a material of another spec in the cache.
C7_Witness ==
    /\ op = "getMaterial"
    /\ mark # NoMark
    /\ mark[1].others
    /\ reqs[1] = mark[1].reqs
    /\ sel = 1
    /\ mMaterials.size = 2
    /\ mMaterials.slots[1] # NullMaterial

\* C8: every chunk of the input that is neither the dictionary nor the
\* material chunk of the backend occurs exactly once in the rewritten
\* package, with its tag, size and payload, wherever it stands in the input
\* and whichever chunk is the last one.
C8_PassThroughOnce ==
    Rewrote =>
        \A k \in 1..Len(original.chunks) :
            PassThrough(original.chunks[k]) =>
                Occurrences(edited, original.chunks[k]) = 1

\* C8, the case that holds: a pass-through chunk followed by a dictionary
\* or material chunk is copied once.
C8_Witness ==
    /\ Rewrote
    /\ Len(original.chunks) = 3
    /\ PassThrough(original.chunks[1])
    /\ ~PassThrough(original.chunks[3])
    /\ Occurrences(edited, original.chunks[1]) = 1

\* C9: after a text rewrite the package holds the same records; the record
\* with the key decodes to the lines of the new source, every other record
\* decodes to the text it had.
C9_TextRewriteExact ==
    (Rewrote /\ mDictionaryTag = "DictionaryText" /\ TextKeys(original) # {}) =>
        /\ TextKeys(edited) = TextKeys(original)
        /\ \A k \in TextKeys(original) :
              TextOf(edited, k) = IF k = call[1].key THEN LinesOf(call[1].source)
                                  ELSE TextOf(original, k)

\* C9, a case that holds: the new source adds no line to the dictionary, and
\* the other record keeps its text.
C9_Witness ==
    /\ Rewrote
    /\ mDictionaryTag = "DictionaryText"
    /\ Cardinality(TextKeys(original)) = 2
    /\ call[1].key \in TextKeys(original)
    /\ call[1].source = <<120, NewLine, 120>>
    /\ getChunk(edited, mDictionaryTag) = getChunk(original, mDictionaryTag)
    /\ \A k \in TextKeys(original) :
          TextOf(edited, k) = IF k = call[1].key THEN LinesOf(call[1].source)
                              ELSE TextOf(original, k)
    /\ \E k \in TextKeys(original) : k # call[1].key /\ TextOf(original, k) = <<121, NewLine>>

\* C10: after a SPIR-V rewrite every record but the one with the key has
\* the blob content it had; when two records shared a blob and the first
\* is replaced with new bytes, the dictionary holds two blobs and the first
\* record has the new one.
C10_SpirvOthersUntouched ==
    (Rewrote /\ mDictionaryTag = "DictionarySpirv") =>
        /\ SpirvKeys(edited) = SpirvKeys(original)
        /\ \A k \in SpirvKeys(original) \ {call[1].key} :
              BlobOf(edited, k) = BlobOf(original, k)
        /\ LET records == getChunk(original, mMaterialTag)
           IN  (/\ Len(records) = 2
                /\ records[1].blobIndex = records[2].blobIndex
                /\ keyOf(records[1]) = call[1].key
                /\ BlobOf(edited, call[1].key) # BlobOf(original, call[1].key))
               => Len(getChunk(edited, mDictionaryTag)) = 2

\* C10, a case that holds: the records have blobs of their own, and the
\* rewrite of the first leaves the second alone.
C10_Witness ==
    /\ Rewrote
    /\ mDictionaryTag = "DictionarySpirv"
    /\ Len(getChunk(original, mMaterialTag)) = 2
    /\ getChunk(original, mMaterialTag)[1].blobIndex # getChunk(original, mMaterialTag)[2].blobIndex
    /\ keyOf(getChunk(original, mMaterialTag)[1]) = call[1].key
    /\ BlobOf(edited, call[1].key) # BlobOf(original, call[1].key)
    /\ BlobOf(edited, keyOf(getChunk(original, mMaterialTag)[2]))
          = BlobOf(original, keyOf(getChunk(original, mMaterialTag)[2]))

\* The last call got as far as building the index: the package parsed and
\* holds the dictionary and the material chunk of the backend.
ReachedIndex ==
    /\ call # <<>>
    /\ call[1].fault = "none"
    /\ parse(original)
    /\ hasChunk(original, mMaterialTag)
    /\ hasChunk(original, mDictionaryTag)

\* The keys of the records of the package, on either path.
RecordKeys(package) ==
    IF mDictionaryTag = "DictionarySpirv" THEN SpirvKeys(package) ELSE TextKeys(package)

\* C11: when no record of the package has the requested (model, variant,
\* stage), replaceShaderSource reports failure (and so creates no edited
\* package), on the text path and on the SPIR-V path.
C11_NoSuchShader ==
    (ReachedIndex /\ call[1].key \notin RecordKeys(original)) => ~call[1].ret

\* C12: re-encoding a well-formed text package with no replacement (the
\* key is the key of no record) yields a package with the same records, each
\* decoding to the text it had.
C12_TextRoundTrip ==
    (Rewrote /\ mDictionaryTag = "DictionaryText"
        /\ call[1].key \notin TextKeys(original)) =>
        /\ TextKeys(edited) = TextKeys(original)
        /\ \A k \in TextKeys(original) : TextOf(edited, k) = TextOf(original, k)

\* C12 witness: two records over a dictionary that holds a line twice, one
\* of them with an empty line, re-encoded with no replacement.
C12_Witness ==
    /\ Rewrote
    /\ mDictionaryTag = "DictionaryText"
    /\ call[1].key \notin TextKeys(original)
    /\ Cardinality(TextKeys(original)) = 2
    /\ getChunk(original, mDictionaryTag) = <<<<>>, <<>>>>
    /\ \E k \in TextKeys(original) : TextOf(edited, k) = <<NewLine, NewLine>>
    /\ \A k \in TextKeys(original) : TextOf(edited, k) = TextOf(original, k)

-----------------------------------------------------------------------------
(* Archive codec *)

\* An ArchiveCache has loaded what the WritableArchive serialized.
Reloaded == wout # <<>> /\ mArchive # NoArchive /\ op = "load"

\* The identifier a spec line starts with.
identifierOf(line) == SubSeq(line, 1, readIdentifier(line))

\* The (name, value) pairs of the flags of a loaded spec and of a material.
LoadedFlags(spec) == {<<spec.flags[j].name, spec.flags[j].value>> : j \in 1..Len(spec.flags)}
WrittenFlags(material) == {<<id, material.flags[id]>> : id \in DOMAIN material.flags}

\* Spec i of the loaded archive is the i-th material added.
SpecIsMaterial(i) ==
    LET spec == mArchive[1][i]
        material == wMaterials[i]
    IN  /\ spec.shadingModel = material.shadingModel
        /\ spec.blendingMode = material.blendingMode
        /\ LoadedFlags(spec) = WrittenFlags(material)
        /\ Len(spec.flags) = Cardinality(DOMAIN material.flags)
        /\ spec.package = material.package
        /\ spec.packageByteCount = Len(material.package)
        /\ (\A k \in 1..Len(wlog[i]) : identifierOf(wlog[i][k]) # Keywords.BlendingMode)
              => spec.blendingMode = INVALID_BLENDING
        /\ (\A k \in 1..Len(wlog[i]) : identifierOf(wlog[i][k]) # Keywords.ShadingModel)
              => spec.shadingModel = INVALID_SHADING_MODEL

\* C13: after serialize and load, the archive has as many specs as
\* materials were added, and spec i has the shading model, blending mode,
\* flag set and package of the i-th material added, INVALID where no spec
\* line set the blending or the shading.
C13_ArchiveRoundTrip ==
    Reloaded =>
        /\ Len(mArchive[1]) = Len(wlog)
        /\ \A i \in 1..Len(wlog) : SpecIsMaterial(i)

\* The round trip of a WritableArchive all of whose slots were assigned.
C13_FilledRoundTrip ==
    (Reloaded /\ Len(wlog) = Len(wMaterials)) =>
        /\ Len(mArchive[1]) = Len(wlog)
        /\ \A i \in 1..Len(wlog) : SpecIsMaterial(i)

\* Two materials, the first with two flags and a blending mode, reloaded.
C13_Witness ==
    /\ Reloaded
    /\ Len(wlog) = 2 /\ Len(wMaterials) = 2
    /\ Cardinality(DOMAIN wMaterials[1].flags) = 2
    /\ wMaterials[2].blendingMode = "OPAQUE"
    /\ wMaterials[1].package # wMaterials[2].package
    /\ \A i \in 1..2 : SpecIsMaterial(i)

\* The buffer the WritableArchive serialized, before compression.
written == ZSTD_decompress(wout[1])

\* C14: every serialized archive has a specsOffset and, in every spec, a
\* flagsOffset that are multiples of 8, whatever the numbers of materials
\* and flags, the lengths of the flag names and the sizes of the packages,
\* and the load of it does not stop at an alignment assertion.
C14_OffsetsAligned ==
    wout # <<>> =>
        /\ written.archive.specsOffset % 8 = 0
        /\ \A i \in 1..Len(written.specs) : written.specs[i].flagsOffset % 8 = 0
        /\ fault # "abort"

\* Loaded: two materials with packages of 1 and 2 bytes, the first with
\* the flags "a" and "ab" (5 bytes of names), the second with one flag.
C14_Witness ==
    /\ Reloaded
    /\ Len(written.specs) = 2
    /\ written.specs[1].flagsCount = 2
    /\ written.specs[2].flagsCount = 1
    /\ written.specs[2].flagsOffset = written.specs[1].flagsOffset + 2 * sizeofArchiveFlag
    /\ Len(written.flagNames) % 8 # 0
    /\ written.specs[1].packageByteCount = 1
    /\ written.specs[2].packageByteCount = 2
    /\ written.specs[2].flagsOffset % 8 = 0

-----------------------------------------------------------------------------
(* Text rewrite: what the emitted chunks hold *)

\* A text rewrite returned and wrote the chunks of the ShaderIndex.
EmittedText ==
    /\ Rewrote
    /\ mDictionaryTag = "DictionaryText"
    /\ hasChunk(edited, mDictionaryTag)
    /\ hasChunk(edited, mMaterialTag)

\* The dictionary and the record tails of a text package.
DictionaryOf(package) == getChunk(package, mDictionaryTag)
TailsOf(package) == getChunk(package, mMaterialTag).tails

\* C15: after a text rewrite of a well-formed package that emitted the
\* chunks, whether replaceShader ran to its end or returned early, every
\* line index of every record is below the number of strings of the
\* emitted dictionary.
C15_LineIndexInvariant ==
    EmittedText =>
        \A i \in 1..Len(TailsOf(edited)) :
            \A n \in 1..Len(TailsOf(edited)[i].lineIndices) :
                TailsOf(edited)[i].lineIndices[n] < Len(DictionaryOf(edited))

\* replaceShader returned early: "x\nz" replaced a shader over a full
\* dictionary, "x" got the last index and "z" none, and the record after
\* it kept the indices it had.
C15_Witness ==
    /\ EmittedText
    /\ call[1].source = <<120, NewLine, 122>>
    /\ Len(DictionaryOf(original)) = UINT16_MAX
    /\ Len(DictionaryOf(edited)) = UINT16_MAX + 1
    /\ Len(TailsOf(edited)) = 2
    /\ TailsOf(edited)[1].lineIndices = <<UINT16_MAX>>
    /\ TailsOf(edited)[2].lineIndices = <<0, UINT16_MAX - 2>>

\* C17: after any text rewrite of a package whose dictionary has at most
\* 65535 strings, the emitted dictionary has at most 65535 strings,
\* whatever the number of new lines of the replacement.
C17_DictionaryCap ==
    (EmittedText /\ Len(DictionaryOf(original)) <= UINT16_MAX) =>
        Len(DictionaryOf(edited)) <= UINT16_MAX

\* The lines of a replacement source that the dictionary does not hold.
NewLinesOf(package, source) ==
    LET lines == splitLoop(source, 0, <<>>)
    IN  {lines[k] : k \in 1..Len(lines)} \
            {DictionaryOf(package)[i] : i \in 1..Len(DictionaryOf(package))}

\* The call replaces a shader of the package by a source whose new lines
\* need a line index above 65535.
TooManyLines ==
    /\ ReachedIndex
    /\ mDictionaryTag = "DictionaryText"
    /\ call[1].key \in TextKeys(original)
    /\ Len(DictionaryOf(original))
          + Cardinality(NewLinesOf(original, call[1].source)) > UINT16_MAX + 1

\* C18: a text rewrite that would need a line index above 65535 fails:
\* replaceShaderSource does not return true, and no edited package exists.
C18_TooManyLinesSurfaces ==
    TooManyLines => ~call[1].ret /\ mEditedPackage = NoPackage

-----------------------------------------------------------------------------
(* SPIR-V rewrite: what the emitted chunks hold *)

\* The BlobIndex that writeChunks was given when the SPIR-V rewrite that
\* returned had compiled the source to spirv.
EncodedIndex(spirv) ==
    blobReplaceShader(BlobIndexOf(mDictionaryTag, mMaterialTag, original),
                      call[1].key, spirv)

\* The rewrite that returned wrote the chunks of that BlobIndex.
EmittedSpirv(spirv) ==
    /\ Rewrote
    /\ mDictionaryTag = "DictionarySpirv"
    /\ ~blobIsEmpty(EncodedIndex(spirv))
    /\ edited.chunks = blobWriteChunks(EncodedIndex(spirv), mDictionaryTag, mMaterialTag,
                                       cloneChunks(original, mDictionaryTag, mMaterialTag))

\* C16: after a SPIR-V encode every record's blob index is below the
\* number of blobs of the emitted dictionary, and the blob at that index
\* is the blob the record referenced before the encode.
C16_BlobIndexInvariant ==
    \A spirv \in SpirvBlobs :
        EmittedSpirv(spirv) =>
            LET before == EncodedIndex(spirv)
                blobs == getChunk(edited, mDictionaryTag)
                records == getChunk(edited, mMaterialTag)
            IN  /\ Len(records) = Len(before.mShaderRecords)
                /\ \A i \in 1..Len(records) :
                      /\ records[i].blobIndex < Len(blobs)
                      /\ smolvDecode(blobs[records[i].blobIndex + 1])
                            = before.mDataBlobs[before.mShaderRecords[i].blobIndex + 1]

\* The encode renumbered a record: two records referenced blobs 1 and 0,
\* and came out referencing blobs 0 and 1.
C16_Witness ==
    \E spirv \in SpirvBlobs :
        /\ EmittedSpirv(spirv)
        /\ Len(getChunk(original, mMaterialTag)) = 2
        /\ getChunk(original, mMaterialTag)[1].blobIndex = 1
        /\ getChunk(original, mMaterialTag)[2].blobIndex = 0
        /\ getChunk(edited, mMaterialTag)[1].blobIndex = 0
        /\ getChunk(edited, mMaterialTag)[2].blobIndex = 1

-----------------------------------------------------------------------------
(* Rewrite: the order of the chunks written *)

\* C19: the stream of a successful rewrite is the pass-through chunks,
\* then exactly one dictionary chunk, then exactly one material chunk, also
\* for a package whose dictionary and record list are both empty.
C19_ChunkOrder ==
    Rewrote =>
        LET n == Len(edited.chunks)
        IN  /\ n >= 2
            /\ edited.chunks[n - 1].tag = mDictionaryTag
            /\ edited.chunks[n].tag = mMaterialTag
            /\ \A k \in 1..(n - 2) :
                  edited.chunks[k].tag \notin {mDictionaryTag, mMaterialTag}

\* A rewrite of a package that holds a string or a record wrote the two
\* chunks last, the dictionary chunk before the material chunk.
C19_Witness ==
    /\ Rewrote
    /\ Len(getChunk(original, mDictionaryTag)) > 0
    /\ Len(edited.chunks) >= 2
    /\ edited.chunks[Len(edited.chunks) - 1].tag = mDictionaryTag
    /\ edited.chunks[Len(edited.chunks)].tag = mMaterialTag

-----------------------------------------------------------------------------
(* Text rewrite: the dictionary only grows at its end *)

\* The text replaceShader re-encodes for record i: the source for the
\* first record with the key of the call, else the text the record decodes
\* to in the original package.
RecordText(i) ==
    LET index == ShaderIndexOf(mDictionaryTag, mMaterialTag, original)
        hits == {j \in 1..Len(index.mShaderRecords) :
                    keyOf(index.mShaderRecords[j]) = call[1].key}
        r == index.mShaderRecords[i]
    IN  IF hits # {} /\ i = (CHOOSE j \in hits : \A h \in hits : j <= h)
        THEN call[1].source
        ELSE decodeLines(index.mStringLines, r.lineIndices, Len(r.lineIndices))

\* C20: within one rewrite the dictionary only grows by appending: every
\* string of the input dictionary is at its index in the emitted one, and
\* an index given to a new line still holds that line at the end of the
\* pass.
C20_AppendOnly ==
    EmittedText =>
        LET before == DictionaryOf(original)
            after == DictionaryOf(edited)
        IN  /\ Len(before) <= Len(after)
            /\ \A i \in 1..Len(before) : after[i] = before[i]
            /\ \A i \in 1..Len(TailsOf(edited)) :
                  LET lines == splitLoop(RecordText(i), 0, <<>>)
                      ix == TailsOf(edited)[i].lineIndices
                  IN  \A n \in 1..Len(ix) :
                          ix[n] >= Len(before) =>
                              /\ n <= Len(lines)
                              /\ ix[n] < Len(after)
                              /\ after[ix[n] + 1] = lines[n]

\* A two-line source gave two new lines the two indices after a dictionary
\* of two strings, which kept their places.
C20_Witness ==
    /\ EmittedText
    /\ Len(DictionaryOf(original)) = 2
    /\ Len(DictionaryOf(edited)) = 4
    /\ DictionaryOf(edited)[1] = DictionaryOf(original)[1]
    /\ DictionaryOf(edited)[2] = DictionaryOf(original)[2]
    /\ \E i \in 1..Len(TailsOf(edited)) : TailsOf(edited)[i].lineIndices = <<2, 3>>

-----------------------------------------------------------------------------
(* Text rewrite: the strings the emitted dictionary holds *)

\* The indices of the emitted dictionary that some emitted record
\* references.
ReferencedIndices ==
    UNION {{TailsOf(edited)[i].lineIndices[n] :
                n \in 1..Len(TailsOf(edited)[i].lineIndices)} :
            i \in 1..Len(TailsOf(edited))}

\* Every string of the original dictionary is referenced by a record.
AllReferenced ==
    \A k \in 1..Len(DictionaryOf(original)) :
        \E i \in 1..Len(TailsOf(original)) :
            \E n \in 1..Len(TailsOf(original)[i].lineIndices) :
                TailsOf(original)[i].lineIndices[n] = k - 1

\* C21: after a text rewrite of a package whose lines are all referenced,
\* the emitted dictionary holds only strings that some emitted record
\* references: an original line that no record references after the
\* replacement is absent from it.
C21_OnlyReferencedLines ==
    (EmittedText /\ call[1].key \in TextKeys(original) /\ AllReferenced) =>
        \A k \in 1..Len(DictionaryOf(edited)) : (k - 1) \in ReferencedIndices

\* The replaced shader was the only one to use the one line of the
\* dictionary, and the rewrite left that line in the dictionary before the
\* new one.
C21_Witness ==
    /\ EmittedText
    /\ call[1].key \in TextKeys(original)
    /\ Len(DictionaryOf(original)) = 1
    /\ Len(TailsOf(original)) = 1
    /\ TailsOf(original)[1].lineIndices = <<0>>
    /\ Len(DictionaryOf(edited)) = 2
    /\ DictionaryOf(edited)[1] = DictionaryOf(original)[1]
    /\ ReferencedIndices = {1}

-----------------------------------------------------------------------------
(* ArchiveCache: the handle cache *)

\* An archive is loaded and destroyMaterials has not emptied the cache of a
\* non-empty archive.
CacheInUse ==
    /\ mArchive # NoArchive
    /\ fault = "none"
    /\ mMaterials.size = Len(mArchive[1])

\* C22: while the cache is in use the engine has built at most one
\* material per spec index, each at a call that selected the index; the
\* cache holds every handle built, a selection returns the handle of its
\* index, and getDefaultMaterial returns the handle of spec 0.
C22_LazyHandleCache ==
    CacheInUse =>
        /\ \A h, g \in 1..Len(built) : built[h] = built[g] => h = g
        /\ \A h \in 1..Len(built) : mMaterials.slots[built[h] + 1] = h
        /\ \A k \in 1..mMaterials.size :
              mMaterials.slots[k] # NullMaterial => built[mMaterials.slots[k]] = k - 1
        /\ (op = "getMaterial" /\ sel # NoMatch) =>
              /\ ret # NullMaterial
              /\ ret = mMaterials.slots[sel + 1]
              /\ didBuild => ret = Len(built)
        /\ op = "getDefaultMaterial" =>
              /\ ret # NullMaterial
              /\ ret = mMaterials.slots[1]
              /\ didBuild => ret = Len(built)
        /\ didBuild => op \in {"getMaterial", "getDefaultMaterial"}

\* getMaterial built the handles of spec 1 and of spec 0, and
\* getDefaultMaterial then returned the handle of spec 0 without building.
C22_Witness ==
    /\ CacheInUse
    /\ op = "getDefaultMaterial"
    /\ ~didBuild
    /\ built = <<1, 0>>
    /\ sel = 0
    /\ ret = 2

-----------------------------------------------------------------------------
(* ArchiveCache: teardown *)

\* C23: the archive buffer is freed only when the handle cache is empty
\* and every material built from the archive has been destroyed.
C23_TeardownOrder ==
    freed =>
        /\ mMaterials.size = 0
        /\ \A h \in 1..Len(built) : h \in destroyed

\* The destructor freed the archive after destroyMaterials had destroyed
\* the two materials built from it.
C23_Witness ==
    /\ freed
    /\ mMaterials.size = 0
    /\ Len(built) = 2
    /\ destroyed = {1, 2}

-----------------------------------------------------------------------------
(* ArchiveCache: accesses to the handle cache *)

\* C29: every access to the handle cache uses an index below the length of
\* the cache: the index getMaterial selected, and index 0 in
\* getDefaultMaterial.
C29_CacheInBounds ==
    /\ (op = "getMaterial" /\ sel # NoMatch) => sel < mMaterials.size
    /\ op = "getDefaultMaterial" => 0 < mMaterials.size

\* getMaterial selected the second spec of a loaded archive and read its
\* slot of the two-slot cache.
C29_Witness ==
    /\ op = "getMaterial"
    /\ sel = 1
    /\ mMaterials.size = 2
    /\ ret = mMaterials.slots[2]
    /\ ret # NullMaterial
    /\ fault = "none"

-----------------------------------------------------------------------------
(* WritableArchive: spec lines *)

\* The last call was an addSpecLine that ended in a syntax error.
SyntaxError ==
    /\ wcall # <<>>
    /\ wcall[1].op = "addSpecLine"
    /\ wcall[1].error # ""

\* C24: an addSpecLine that ends in a syntax error leaves the flags, the
\* blending mode and the shading model of every material as they were
\* before the call.
C24_SyntaxErrorKeepsState ==
    SyntaxError => wMaterials = wcall[1].before

\* A line without '=' was refused and the material is as it was.
C24_Witness ==
    /\ SyntaxError
    /\ wcall[1].error = "expected equal sign"
    /\ wMaterials = wcall[1].before

\* The last call was an addSpecLine of an assignment: an identifier that
\* is neither BlendingMode nor ShadingModel, '=', and one of unsupported,
\* optional, required, with nothing after it.
FlagAssignment ==
    /\ wcall # <<>>
    /\ wcall[1].op = "addSpecLine"
    /\ LET line == wcall[1].line
           length == readIdentifier(line)
           eq == equalSign(line, length)
           r == readArchiveFeature(at(line, eq.p))
       IN  /\ length > 0
           /\ SubSeq(line, 1, length) \notin {Keywords.BlendingMode, Keywords.ShadingModel}
           /\ eq.found
           /\ r.length > 0
           /\ CharAt(line, eq.p + r.length + 1) = 0

\* C25: a line whose identifier is not exactly BlendingMode or ShadingModel
\* is a feature-flag assignment, also when the identifier begins with one
\* of the two: with a value of unsupported, optional or required the line
\* is accepted and the flag is stored with that value, the blending mode
\* and the shading model staying as they were.
C25_DispatchByIdentifier ==
    FlagAssignment =>
        LET line == wcall[1].line
            length == readIdentifier(line)
            id == SubSeq(line, 1, length)
            eq == equalSign(line, length)
            r == readArchiveFeature(at(line, eq.p))
            material == wMaterials[mMaterialIndex + 1]
            before == wcall[1].before[mMaterialIndex + 1]
        IN  /\ wcall[1].error = ""
            /\ id \in DOMAIN material.flags
            /\ material.flags[id] = r.value[1]
            /\ material.blendingMode = before.blendingMode
            /\ material.shadingModel = before.shadingModel

\* "ab = optional" was accepted and stored the flag ab.
C25_Witness ==
    /\ FlagAssignment
    /\ wcall[1].error = ""
    /\ wcall[1].line[1] = 97
    /\ wcall[1].line[2] = 98
    /\ <<97, 98>> \in DOMAIN wMaterials[mMaterialIndex + 1].flags
    /\ wMaterials[mMaterialIndex + 1].flags[<<97, 98>>] = OPTIONAL

-----------------------------------------------------------------------------
(* Rewrite: the path taken *)

\* The material tag the chunks of a package imply: MaterialSpirv when it
\* is present, else MaterialGlsl, else MaterialMetal, else none.
impliedMaterialTag(package) ==
    IF hasChunk(package, "MaterialSpirv") THEN "MaterialSpirv"
    ELSE IF hasChunk(package, "MaterialGlsl") THEN "MaterialGlsl"
    ELSE IF hasChunk(package, "MaterialMetal") THEN "MaterialMetal"
    ELSE "none"

impliedDictionaryTag(package) ==
    IF impliedMaterialTag(package) = "MaterialSpirv" THEN "DictionarySpirv"
    ELSE "DictionaryText"

\* replaceShaderSource returned, on a package that parses.
CalledOnParsed ==
    /\ call # <<>>
    /\ call[1].fault = "none"
    /\ parse(original)

\* C26: the rewrite works on the tags the chunks of the package imply, a
\* text rewrite of a package that holds the implied chunks succeeds, and a
\* rewrite fails when the package holds none of the three material chunks.
C26_PathFromChunks ==
    CalledOnParsed =>
        /\ impliedMaterialTag(original) # "none" =>
              /\ mMaterialTag = impliedMaterialTag(original)
              /\ mDictionaryTag = impliedDictionaryTag(original)
        /\ (/\ impliedMaterialTag(original) \in {"MaterialGlsl", "MaterialMetal"}
            /\ hasChunk(original, "DictionaryText")) => call[1].ret
        /\ impliedMaterialTag(original) = "none" => ~call[1].ret

\* A Metal rewriter rewrote a package that holds MaterialMetal and no other
\* material chunk.
C26_Witness ==
    /\ CalledOnParsed
    /\ mBackend = "METAL"
    /\ impliedMaterialTag(original) = "MaterialMetal"
    /\ hasChunk(original, "DictionaryText")
    /\ call[1].ret
    /\ hasChunk(edited, "MaterialMetal")

-----------------------------------------------------------------------------
(* Text rewrite: the offsets of the records *)

\* C27: in the material chunk written by a text rewrite the offset of each
\* record is the position, from the start of the payload, at which
\* writeChunks wrote the tail of the record: 8 + 7 * N for the first of N
\* records, and 8 + 2 * lineCount further for each record before it.
C27_OffsetsMatchLayout ==
    EmittedText =>
        LET payload == getChunk(edited, mMaterialTag)
        IN  \A i \in 1..Len(payload.entries) :
                payload.entries[i].offset = tailStart(payload, i)

\* A rewrite gave the first of two records two lines where it had one, and
\* the offset of the second record moved by the size of one index.
C27_Witness ==
    /\ EmittedText
    /\ Len(TailsOf(original)) = 2
    /\ Len(TailsOf(original)[1].lineIndices) = 1
    /\ Len(TailsOf(edited)[1].lineIndices) = 2
    /\ getChunk(edited, mMaterialTag).entries[2].offset
          = getChunk(original, mMaterialTag).entries[2].offset + IndexSize

-----------------------------------------------------------------------------
(* Rewrite: a call that fails *)

\* C28: a replaceShaderSource call that returns false creates no edited
\* package and leaves the original package as it was: the object holds
\* what it held before the call.
C28_FailureCreatesNothing ==
    [][(call' # <<>> /\ call'[1].fault = "none" /\ ~call'[1].ret) =>
            /\ mEditedPackage' = mEditedPackage
            /\ mOriginalPackage' = mOriginalPackage]_vars

\* A SPIR-V rewrite failed after an earlier one had succeeded, and the
\* object still holds the package the earlier one created.
C28_Witness ==
    /\ call # <<>>
    /\ call[1].fault = "none"
    /\ ~call[1].ret
    /\ mBackend = "VULKAN"
    /\ mEditedPackage # NoPackage

====
